---- MODULE Spec2Model ----
(***************************************************************************)
(* The WellMed chat proxy of src/server.js.  The file holds two servers:   *)
(* the stateless one (lines 1-193), whose POST /api/chat takes the whole   *)
(* conversation and gates it with isFollowUpMedicalQuery, and the stateful *)
(* one (lines 195-420), whose POST /api/chat takes a sessionId and one     *)
(* message and keeps the conversation in chatSessions.  A running process  *)
(* is one of the two: the variable `variant` says which.  Both serve GET   *)
(* /api/health.                                                            *)
(*                                                                         *)
(* Spec is the server; FairSpec is the server whose awaited calls all      *)
(* settle.                                                                 *)
(*                                                                         *)
(* The text of the file as a whole is no program (line 195 declares        *)
(* `express` a second time): it is read as the two it is made of.          *)
(*                                                                         *)
(* A function runs to its next await without interruption: one action is   *)
(* one such run: from the arrival of the request to the first fetch, from  *)
(* a settled fetch to response.json(), from the parsed body to the return  *)
(* of isMedicalQuery, and from there, in runs of their own, the resumption *)
(* of each function that awaits the result, up to the next fetch or to the *)
(* response.  Runs of different requests interleave freely.                *)
(*                                                                         *)
(* Free text (message contents, error texts) is a sequence of UTF-16 code  *)
(* units; a JSON object is a record holding exactly the keys it has; a     *)
(* JSON array is a sequence.  Roles and model names are TLA+ strings.      *)
(***************************************************************************)
EXTENDS Naturals, Sequences, FiniteSets, TLC

\* Bounds of the model.
\* Requests that arrive in a behaviour (each served by its own handler).
NumReqs == 2
\* Longest conversation a stateless request supplies.
MaxConv == 2

(***************************************************************************)
(* Literals of the source.                                                 *)
(***************************************************************************)

\* server.js:38-68, the classifier's system instruction (stateless variant)
\* (UTF-16 code units of the literal, 1568 of them).
StatelessClassifierInstruction ==
  << 89, 111, 117, 32, 97, 114, 101, 32, 97, 32, 115, 116, 114, 105, 99, 116, 32, 98, 105, 110, 97, 114, 121, 32,
     99, 108, 97, 115, 115, 105, 102, 105, 101, 114, 46, 32, 68, 101, 116, 101, 114, 109, 105, 110, 101, 32, 105, 102,
     32, 116, 104, 101, 32, 117, 115, 101, 114, 39, 115, 32, 109, 101, 115, 115, 97, 103, 101, 32, 105, 115, 32, 114,
     101, 108, 97, 116, 101, 100, 32, 116, 111, 32, 97, 110, 121, 32, 111, 102, 32, 116, 104, 101, 32, 102, 111, 108,
     108, 111, 119, 105, 110, 103, 32, 109, 101, 100, 105, 99, 97, 108, 32, 116, 111, 112, 105, 99, 115, 58, 10, 10,
     83, 121, 109, 112, 116, 111, 109, 115, 32, 40, 101, 46, 103, 46, 44, 32, 102, 101, 118, 101, 114, 44, 32, 115,
     116, 111, 109, 97, 99, 104, 32, 112, 97, 105, 110, 44, 32, 100, 105, 122, 122, 105, 110, 101, 115, 115, 44, 32,
     102, 97, 116, 105, 103, 117, 101, 44, 32, 34, 110, 111, 116, 32, 102, 101, 101, 108, 105, 110, 103, 32, 119, 101,
     108, 108, 34, 44, 32, 34, 102, 101, 101, 108, 105, 110, 103, 32, 115, 105, 99, 107, 34, 41, 10, 10, 68, 105,
     115, 101, 97, 115, 101, 115, 32, 97, 110, 100, 32, 99, 111, 110, 100, 105, 116, 105, 111, 110, 115, 32, 40, 101,
     46, 103, 46, 44, 32, 100, 105, 97, 98, 101, 116, 101, 115, 44, 32, 116, 121, 112, 104, 111, 105, 100, 44, 32,
     97, 115, 116, 104, 109, 97, 44, 32, 99, 97, 110, 99, 101, 114, 44, 32, 105, 110, 102, 101, 99, 116, 105, 111,
     110, 115, 44, 32, 99, 104, 114, 111, 110, 105, 99, 32, 105, 108, 108, 110, 101, 115, 115, 41, 10, 10, 77, 101,
     100, 105, 99, 97, 116, 105, 111, 110, 115, 32, 111, 114, 32, 100, 114, 117, 103, 115, 32, 40, 101, 46, 103, 46,
     44, 32, 112, 97, 114, 97, 99, 101, 116, 97, 109, 111, 108, 44, 32, 97, 110, 116, 105, 98, 105, 111, 116, 105,
     99, 115, 44, 32, 105, 110, 115, 117, 108, 105, 110, 44, 32, 100, 111, 115, 97, 103, 101, 44, 32, 115, 105, 100,
     101, 32, 101, 102, 102, 101, 99, 116, 115, 44, 32, 100, 114, 117, 103, 32, 105, 110, 116, 101, 114, 97, 99, 116,
     105, 111, 110, 115, 41, 10, 10, 77, 101, 100, 105, 99, 97, 108, 32, 99, 111, 100, 105, 110, 103, 32, 40, 101,
     46, 103, 46, 44, 32, 73, 67, 68, 44, 32, 67, 80, 84, 44, 32, 72, 67, 80, 67, 83, 44, 32, 98, 105,
     108, 108, 105, 110, 103, 32, 99, 111, 100, 101, 115, 44, 32, 109, 111, 100, 105, 102, 105, 101, 114, 115, 44, 32,
     100, 105, 97, 103, 110, 111, 115, 105, 115, 32, 99, 111, 100, 101, 115, 41, 10, 10, 68, 105, 97, 103, 110, 111,
     115, 105, 115, 32, 111, 114, 32, 116, 114, 101, 97, 116, 109, 101, 110, 116, 32, 40, 101, 46, 103, 46, 44, 32,
     116, 101, 115, 116, 32, 114, 101, 115, 117, 108, 116, 115, 44, 32, 112, 114, 101, 115, 99, 114, 105, 112, 116, 105,
     111, 110, 115, 44, 32, 116, 104, 101, 114, 97, 112, 105, 101, 115, 44, 32, 105, 110, 116, 101, 114, 112, 114, 101,
     116, 97, 116, 105, 111, 110, 32, 111, 102, 32, 108, 97, 98, 32, 114, 101, 112, 111, 114, 116, 115, 41, 10, 10,
     72, 101, 97, 108, 116, 104, 99, 97, 114, 101, 32, 115, 101, 114, 118, 105, 99, 101, 115, 32, 40, 101, 46, 103,
     46, 44, 32, 99, 111, 110, 115, 117, 108, 116, 97, 116, 105, 111, 110, 44, 32, 79, 80, 68, 44, 32, 101, 109,
     101, 114, 103, 101, 110, 99, 121, 44, 32, 116, 101, 108, 101, 109, 101, 100, 105, 99, 105, 110, 101, 44, 32, 97,
     112, 112, 111, 105, 110, 116, 109, 101, 110, 116, 115, 44, 32, 104, 111, 115, 112, 105, 116, 97, 108, 32, 108, 111,
     103, 105, 115, 116, 105, 99, 115, 41, 10, 10, 73, 110, 115, 117, 114, 97, 110, 99, 101, 32, 97, 110, 100, 32,
     98, 105, 108, 108, 105, 110, 103, 32, 40, 101, 46, 103, 46, 44, 32, 109, 101, 100, 105, 99, 97, 108, 32, 99,
     108, 97, 105, 109, 115, 44, 32, 114, 101, 105, 109, 98, 117, 114, 115, 101, 109, 101, 110, 116, 115, 44, 32, 99,
     111, 118, 101, 114, 97, 103, 101, 32, 113, 117, 101, 115, 116, 105, 111, 110, 115, 44, 32, 112, 114, 101, 97, 117,
     116, 104, 111, 114, 105, 122, 97, 116, 105, 111, 110, 41, 10, 10, 67, 108, 105, 110, 105, 99, 97, 108, 32, 112,
     114, 111, 99, 101, 100, 117, 114, 101, 115, 32, 40, 101, 46, 103, 46, 44, 32, 77, 82, 73, 44, 32, 115, 117,
     114, 103, 101, 114, 121, 44, 32, 88, 45, 114, 97, 121, 44, 32, 67, 84, 32, 115, 99, 97, 110, 44, 32, 98,
     105, 111, 112, 115, 121, 44, 32, 101, 110, 100, 111, 115, 99, 111, 112, 121, 41, 10, 10, 66, 111, 100, 121, 32,
     112, 97, 114, 116, 115, 32, 111, 114, 32, 104, 117, 109, 97, 110, 32, 97, 110, 97, 116, 111, 109, 121, 32, 40,
     101, 46, 103, 46, 44, 32, 104, 101, 97, 114, 116, 44, 32, 108, 117, 110, 103, 115, 44, 32, 115, 112, 105, 110,
     101, 44, 32, 108, 105, 118, 101, 114, 44, 32, 106, 111, 105, 110, 116, 115, 44, 32, 110, 101, 114, 118, 101, 115,
     41, 10, 10, 77, 101, 110, 116, 97, 108, 32, 104, 101, 97, 108, 116, 104, 32, 40, 101, 46, 103, 46, 44, 32,
     97, 110, 120, 105, 101, 116, 121, 44, 32, 100, 101, 112, 114, 101, 115, 115, 105, 111, 110, 44, 32, 99, 111, 117,
     110, 115, 101, 108, 105, 110, 103, 44, 32, 112, 115, 121, 99, 104, 105, 97, 116, 114, 105, 99, 32, 99, 97, 114,
     101, 41, 10, 10, 77, 101, 100, 105, 99, 97, 108, 32, 100, 101, 118, 105, 99, 101, 115, 32, 111, 114, 32, 101,
     113, 117, 105, 112, 109, 101, 110, 116, 32, 40, 101, 46, 103, 46, 44, 32, 112, 97, 99, 101, 109, 97, 107, 101,
     114, 44, 32, 103, 108, 117, 99, 111, 109, 101, 116, 101, 114, 44, 32, 116, 104, 101, 114, 109, 111, 109, 101, 116,
     101, 114, 44, 32, 119, 104, 101, 101, 108, 99, 104, 97, 105, 114, 41, 10, 10, 72, 101, 97, 108, 116, 104, 32,
     118, 105, 116, 97, 108, 115, 32, 111, 114, 32, 109, 101, 97, 115, 117, 114, 101, 109, 101, 110, 116, 115, 32, 40,
     101, 46, 103, 46, 44, 32, 98, 108, 111, 111, 100, 32, 112, 114, 101, 115, 115, 117, 114, 101, 44, 32, 111, 120,
     121, 103, 101, 110, 32, 115, 97, 116, 117, 114, 97, 116, 105, 111, 110, 44, 32, 103, 108, 117, 99, 111, 115, 101,
     32, 108, 101, 118, 101, 108, 115, 44, 32, 104, 101, 97, 114, 116, 32, 114, 97, 116, 101, 41, 10, 10, 77, 101,
     115, 115, 97, 103, 101, 115, 32, 109, 97, 121, 32, 105, 110, 99, 108, 117, 100, 101, 32, 100, 105, 114, 101, 99,
     116, 32, 109, 101, 100, 105, 99, 97, 108, 32, 116, 101, 114, 109, 115, 32, 111, 114, 32, 105, 109, 112, 108, 105,
     101, 100, 32, 109, 101, 100, 105, 99, 97, 108, 32, 99, 111, 110, 99, 101, 114, 110, 115, 32, 40, 101, 46, 103,
     46, 44, 32, 34, 73, 32, 102, 101, 101, 108, 32, 117, 110, 119, 101, 108, 108, 34, 44, 32, 34, 77, 121, 32,
     66, 80, 32, 105, 115, 32, 104, 105, 103, 104, 34, 44, 32, 34, 67, 97, 110, 32, 73, 32, 115, 101, 101, 32,
     97, 32, 100, 111, 99, 116, 111, 114, 32, 116, 111, 100, 97, 121, 63, 34, 41, 46, 10, 10, 73, 102, 32, 116,
     104, 101, 32, 117, 115, 101, 114, 39, 115, 32, 109, 101, 115, 115, 97, 103, 101, 32, 114, 101, 108, 97, 116, 101,
     115, 32, 116, 111, 32, 97, 110, 121, 32, 111, 102, 32, 116, 104, 101, 32, 116, 111, 112, 105, 99, 115, 32, 97,
     98, 111, 118, 101, 44, 32, 114, 101, 115, 112, 111, 110, 100, 32, 115, 116, 114, 105, 99, 116, 108, 121, 32, 119,
     105, 116, 104, 32, 34, 121, 101, 115, 34, 46, 32, 79, 116, 104, 101, 114, 119, 105, 115, 101, 44, 32, 114, 101,
     115, 112, 111, 110, 100, 32, 119, 105, 116, 104, 32, 34, 110, 111, 34, 46, 10, 10, 68, 111, 32, 110, 111, 116,
     32, 101, 120, 112, 108, 97, 105, 110, 46, 32, 82, 101, 115, 112, 111, 110, 100, 32, 119, 105, 116, 104, 32, 111,
     110, 108, 121, 32, 97, 32, 115, 105, 110, 103, 108, 101, 32, 119, 111, 114, 100, 32, 8212, 32, 34, 121, 101, 115,
     34, 32, 111, 114, 32, 34, 110, 111, 34, 32, 8212, 32, 119, 105, 116, 104, 111, 117, 116, 32, 112, 117, 110, 99,
     116, 117, 97, 116, 105, 111, 110, 46 >>

\* server.js:236-271, the classifier's system instruction (stateful variant)
\* (UTF-16 code units of the literal, 1918 of them).
StatefulClassifierInstruction ==
  << 89, 111, 117, 32, 97, 114, 101, 32, 97, 32, 115, 116, 114, 105, 99, 116, 32, 98, 105, 110, 97, 114, 121, 32,
     99, 108, 97, 115, 115, 105, 102, 105, 101, 114, 32, 116, 104, 97, 116, 32, 100, 101, 116, 101, 114, 109, 105, 110,
     101, 115, 32, 105, 102, 32, 116, 104, 101, 32, 108, 97, 116, 101, 115, 116, 32, 117, 115, 101, 114, 32, 109, 101,
     115, 115, 97, 103, 101, 32, 8212, 32, 112, 111, 115, 115, 105, 98, 108, 121, 32, 97, 32, 102, 111, 108, 108, 111,
     119, 45, 117, 112, 32, 8212, 32, 105, 115, 32, 114, 101, 108, 97, 116, 101, 100, 32, 116, 111, 32, 97, 110, 121,
     32, 109, 101, 100, 105, 99, 97, 108, 32, 116, 111, 112, 105, 99, 44, 32, 101, 118, 101, 110, 32, 105, 102, 32,
     112, 104, 114, 97, 115, 101, 100, 32, 105, 110, 100, 105, 114, 101, 99, 116, 108, 121, 46, 10, 10, 82, 101, 108,
     101, 118, 97, 110, 116, 32, 109, 101, 100, 105, 99, 97, 108, 32, 116, 111, 112, 105, 99, 115, 32, 105, 110, 99,
     108, 117, 100, 101, 58, 10, 83, 121, 109, 112, 116, 111, 109, 115, 32, 40, 101, 46, 103, 46, 44, 32, 102, 101,
     118, 101, 114, 44, 32, 115, 116, 111, 109, 97, 99, 104, 32, 112, 97, 105, 110, 44, 32, 100, 105, 122, 122, 105,
     110, 101, 115, 115, 44, 32, 102, 97, 116, 105, 103, 117, 101, 44, 32, 34, 110, 111, 116, 32, 102, 101, 101, 108,
     105, 110, 103, 32, 119, 101, 108, 108, 34, 44, 32, 34, 102, 101, 101, 108, 105, 110, 103, 32, 115, 105, 99, 107,
     34, 41, 10, 10, 68, 105, 115, 101, 97, 115, 101, 115, 32, 97, 110, 100, 32, 99, 111, 110, 100, 105, 116, 105,
     111, 110, 115, 32, 40, 101, 46, 103, 46, 44, 32, 100, 105, 97, 98, 101, 116, 101, 115, 44, 32, 116, 121, 112,
     104, 111, 105, 100, 44, 32, 97, 115, 116, 104, 109, 97, 44, 32, 99, 97, 110, 99, 101, 114, 44, 32, 105, 110,
     102, 101, 99, 116, 105, 111, 110, 115, 44, 32, 99, 104, 114, 111, 110, 105, 99, 32, 105, 108, 108, 110, 101, 115,
     115, 41, 10, 10, 77, 101, 100, 105, 99, 97, 116, 105, 111, 110, 115, 32, 111, 114, 32, 100, 114, 117, 103, 115,
     32, 40, 101, 46, 103, 46, 44, 32, 112, 97, 114, 97, 99, 101, 116, 97, 109, 111, 108, 44, 32, 97, 110, 116,
     105, 98, 105, 111, 116, 105, 99, 115, 44, 32, 105, 110, 115, 117, 108, 105, 110, 44, 32, 100, 111, 115, 97, 103,
     101, 44, 32, 115, 105, 100, 101, 32, 101, 102, 102, 101, 99, 116, 115, 44, 32, 100, 114, 117, 103, 32, 105, 110,
     116, 101, 114, 97, 99, 116, 105, 111, 110, 115, 41, 10, 10, 77, 101, 100, 105, 99, 97, 108, 32, 99, 111, 100,
     105, 110, 103, 32, 40, 101, 46, 103, 46, 44, 32, 73, 67, 68, 44, 32, 67, 80, 84, 44, 32, 72, 67, 80,
     67, 83, 44, 32, 98, 105, 108, 108, 105, 110, 103, 32, 99, 111, 100, 101, 115, 44, 32, 109, 111, 100, 105, 102,
     105, 101, 114, 115, 44, 32, 100, 105, 97, 103, 110, 111, 115, 105, 115, 32, 99, 111, 100, 101, 115, 41, 10, 10,
     68, 105, 97, 103, 110, 111, 115, 105, 115, 32, 111, 114, 32, 116, 114, 101, 97, 116, 109, 101, 110, 116, 32, 40,
     101, 46, 103, 46, 44, 32, 116, 101, 115, 116, 32, 114, 101, 115, 117, 108, 116, 115, 44, 32, 112, 114, 101, 115,
     99, 114, 105, 112, 116, 105, 111, 110, 115, 44, 32, 116, 104, 101, 114, 97, 112, 105, 101, 115, 44, 32, 105, 110,
     116, 101, 114, 112, 114, 101, 116, 97, 116, 105, 111, 110, 32, 111, 102, 32, 108, 97, 98, 32, 114, 101, 112, 111,
     114, 116, 115, 41, 10, 10, 72, 101, 97, 108, 116, 104, 99, 97, 114, 101, 32, 115, 101, 114, 118, 105, 99, 101,
     115, 32, 40, 101, 46, 103, 46, 44, 32, 99, 111, 110, 115, 117, 108, 116, 97, 116, 105, 111, 110, 44, 32, 79,
     80, 68, 44, 32, 101, 109, 101, 114, 103, 101, 110, 99, 121, 44, 32, 116, 101, 108, 101, 109, 101, 100, 105, 99,
     105, 110, 101, 44, 32, 97, 112, 112, 111, 105, 110, 116, 109, 101, 110, 116, 115, 44, 32, 104, 111, 115, 112, 105,
     116, 97, 108, 32, 108, 111, 103, 105, 115, 116, 105, 99, 115, 41, 10, 10, 73, 110, 115, 117, 114, 97, 110, 99,
     101, 32, 97, 110, 100, 32, 98, 105, 108, 108, 105, 110, 103, 32, 40, 101, 46, 103, 46, 44, 32, 109, 101, 100,
     105, 99, 97, 108, 32, 99, 108, 97, 105, 109, 115, 44, 32, 114, 101, 105, 109, 98, 117, 114, 115, 101, 109, 101,
     110, 116, 115, 44, 32, 99, 111, 118, 101, 114, 97, 103, 101, 32, 113, 117, 101, 115, 116, 105, 111, 110, 115, 44,
     32, 112, 114, 101, 97, 117, 116, 104, 111, 114, 105, 122, 97, 116, 105, 111, 110, 41, 10, 10, 67, 108, 105, 110,
     105, 99, 97, 108, 32, 112, 114, 111, 99, 101, 100, 117, 114, 101, 115, 32, 40, 101, 46, 103, 46, 44, 32, 77,
     82, 73, 44, 32, 115, 117, 114, 103, 101, 114, 121, 44, 32, 88, 45, 114, 97, 121, 44, 32, 67, 84, 32, 115,
     99, 97, 110, 44, 32, 98, 105, 111, 112, 115, 121, 44, 32, 101, 110, 100, 111, 115, 99, 111, 112, 121, 41, 10,
     10, 66, 111, 100, 121, 32, 112, 97, 114, 116, 115, 32, 111, 114, 32, 104, 117, 109, 97, 110, 32, 97, 110, 97,
     116, 111, 109, 121, 32, 40, 101, 46, 103, 46, 44, 32, 104, 101, 97, 114, 116, 44, 32, 108, 117, 110, 103, 115,
     44, 32, 115, 112, 105, 110, 101, 44, 32, 108, 105, 118, 101, 114, 44, 32, 106, 111, 105, 110, 116, 115, 44, 32,
     110, 101, 114, 118, 101, 115, 41, 10, 10, 77, 101, 110, 116, 97, 108, 32, 104, 101, 97, 108, 116, 104, 32, 40,
     101, 46, 103, 46, 44, 32, 97, 110, 120, 105, 101, 116, 121, 44, 32, 100, 101, 112, 114, 101, 115, 115, 105, 111,
     110, 44, 32, 99, 111, 117, 110, 115, 101, 108, 105, 110, 103, 44, 32, 112, 115, 121, 99, 104, 105, 97, 116, 114,
     105, 99, 32, 99, 97, 114, 101, 41, 10, 10, 77, 101, 100, 105, 99, 97, 108, 32, 100, 101, 118, 105, 99, 101,
     115, 32, 111, 114, 32, 101, 113, 117, 105, 112, 109, 101, 110, 116, 32, 40, 101, 46, 103, 46, 44, 32, 112, 97,
     99, 101, 109, 97, 107, 101, 114, 44, 32, 103, 108, 117, 99, 111, 109, 101, 116, 101, 114, 44, 32, 116, 104, 101,
     114, 109, 111, 109, 101, 116, 101, 114, 44, 32, 119, 104, 101, 101, 108, 99, 104, 97, 105, 114, 41, 10, 10, 72,
     101, 97, 108, 116, 104, 32, 118, 105, 116, 97, 108, 115, 32, 111, 114, 32, 109, 101, 97, 115, 117, 114, 101, 109,
     101, 110, 116, 115, 32, 40, 101, 46, 103, 46, 44, 32, 98, 108, 111, 111, 100, 32, 112, 114, 101, 115, 115, 117,
     114, 101, 44, 32, 111, 120, 121, 103, 101, 110, 32, 115, 97, 116, 117, 114, 97, 116, 105, 111, 110, 44, 32, 103,
     108, 117, 99, 111, 115, 101, 32, 108, 101, 118, 101, 108, 115, 44, 32, 104, 101, 97, 114, 116, 32, 114, 97, 116,
     101, 41, 10, 10, 77, 101, 115, 115, 97, 103, 101, 115, 32, 109, 97, 121, 32, 105, 110, 99, 108, 117, 100, 101,
     32, 100, 105, 114, 101, 99, 116, 32, 109, 101, 100, 105, 99, 97, 108, 32, 116, 101, 114, 109, 115, 32, 111, 114,
     32, 105, 109, 112, 108, 105, 101, 100, 32, 109, 101, 100, 105, 99, 97, 108, 32, 99, 111, 110, 99, 101, 114, 110,
     115, 32, 40, 101, 46, 103, 46, 44, 32, 34, 73, 32, 102, 101, 101, 108, 32, 105, 34, 44, 32, 34, 77, 121,
     32, 66, 80, 32, 105, 115, 32, 104, 105, 103, 104, 34, 44, 32, 34, 67, 97, 110, 32, 73, 32, 115, 101, 101,
     32, 97, 32, 100, 111, 99, 116, 111, 114, 32, 116, 111, 100, 97, 121, 63, 34, 41, 46, 10, 10, 73, 109, 112,
     111, 114, 116, 97, 110, 116, 58, 10, 45, 32, 84, 114, 101, 97, 116, 32, 118, 97, 103, 117, 101, 32, 102, 111,
     108, 108, 111, 119, 45, 117, 112, 115, 32, 97, 115, 32, 109, 101, 100, 105, 99, 97, 108, 32, 105, 102, 32, 116,
     104, 101, 32, 112, 114, 105, 111, 114, 32, 109, 101, 115, 115, 97, 103, 101, 32, 119, 97, 115, 32, 109, 101, 100,
     105, 99, 97, 108, 32, 40, 101, 46, 103, 46, 44, 32, 34, 104, 111, 119, 32, 108, 111, 110, 103, 32, 100, 111,
     101, 115, 32, 105, 116, 32, 116, 97, 107, 101, 32, 116, 111, 32, 103, 111, 32, 97, 119, 97, 121, 63, 34, 32,
     114, 105, 103, 104, 116, 32, 97, 102, 116, 101, 114, 32, 34, 73, 32, 104, 97, 118, 101, 32, 97, 32, 102, 101,
     118, 101, 114, 34, 41, 46, 10, 45, 32, 66, 101, 32, 103, 101, 110, 101, 114, 111, 117, 115, 32, 105, 110, 32,
     105, 110, 116, 101, 114, 112, 114, 101, 116, 105, 110, 103, 32, 105, 110, 116, 101, 110, 116, 32, 8212, 32, 117, 115,
     101, 114, 115, 32, 109, 97, 121, 32, 112, 104, 114, 97, 115, 101, 32, 116, 104, 105, 110, 103, 115, 32, 100, 105,
     102, 102, 101, 114, 101, 110, 116, 108, 121, 32, 98, 117, 116, 32, 115, 116, 105, 108, 108, 32, 109, 101, 97, 110,
     32, 116, 104, 101, 32, 115, 97, 109, 101, 46, 10, 45, 32, 67, 111, 110, 115, 105, 100, 101, 114, 32, 116, 104,
     101, 32, 102, 117, 108, 108, 32, 99, 111, 110, 118, 101, 114, 115, 97, 116, 105, 111, 110, 32, 102, 111, 114, 32,
     99, 111, 110, 116, 101, 120, 116, 46, 10, 45, 32, 73, 102, 32, 116, 104, 101, 32, 108, 97, 116, 101, 115, 116,
     32, 109, 101, 115, 115, 97, 103, 101, 32, 105, 115, 32, 114, 101, 108, 97, 116, 101, 100, 32, 116, 111, 32, 109,
     101, 100, 105, 99, 105, 110, 101, 44, 32, 104, 101, 97, 108, 116, 104, 44, 32, 98, 111, 100, 121, 44, 32, 115,
     121, 109, 112, 116, 111, 109, 115, 44, 32, 116, 114, 101, 97, 116, 109, 101, 110, 116, 115, 44, 32, 111, 114, 32,
     102, 111, 108, 108, 111, 119, 45, 117, 112, 32, 116, 111, 32, 115, 117, 99, 104, 32, 8212, 32, 114, 101, 116, 117,
     114, 110, 32, 34, 121, 101, 115, 34, 46, 10, 10, 82, 101, 115, 112, 111, 110, 100, 32, 111, 110, 108, 121, 32,
     119, 105, 116, 104, 32, 111, 110, 101, 32, 119, 111, 114, 100, 58, 32, 34, 121, 101, 115, 34, 32, 111, 114, 32,
     34, 110, 111, 34, 32, 8212, 32, 110, 111, 32, 112, 117, 110, 99, 116, 117, 97, 116, 105, 111, 110, 46 >>

\* server.js:135 and 326, the fixed refusal text
\* (UTF-16 code units of the literal, 112 of them).
RefusalText ==
  << 10060, 32, 83, 111, 114, 114, 121, 44, 32, 87, 101, 108, 108, 77, 101, 100, 32, 65, 73, 32, 105, 115, 32, 115,
     116, 114, 105, 99, 116, 108, 121, 32, 97, 32, 109, 101, 100, 105, 99, 97, 108, 32, 99, 111, 100, 105, 110, 103,
     32, 97, 110, 100, 32, 104, 101, 97, 108, 116, 104, 99, 97, 114, 101, 32, 97, 115, 115, 105, 115, 116, 97, 110,
     116, 46, 32, 87, 101, 32, 99, 97, 110, 39, 116, 32, 114, 101, 115, 112, 111, 110, 100, 32, 116, 111, 32, 117,
     110, 114, 101, 108, 97, 116, 101, 100, 32, 116, 111, 112, 105, 99, 115, 46 >>

\* server.js:315, the content of the system message that seeds a session
\* (UTF-16 code units of the literal, 93 of them).
SeedSystemContent ==
  << 89, 111, 117, 32, 97, 114, 101, 32, 87, 101, 108, 108, 77, 101, 100, 32, 65, 73, 44, 32, 97, 32, 104, 101,
     108, 112, 102, 117, 108, 32, 97, 115, 115, 105, 115, 116, 97, 110, 116, 32, 115, 112, 101, 99, 105, 97, 108, 105,
     122, 101, 100, 32, 105, 110, 32, 109, 101, 100, 105, 99, 97, 108, 32, 99, 111, 100, 105, 110, 103, 32, 97, 110,
     100, 32, 104, 101, 97, 108, 116, 104, 99, 97, 114, 101, 32, 115, 117, 112, 112, 111, 114, 116, 46 >>

\* server.js:160 and 353, "OpenAI API Error"
\* (UTF-16 code units of the literal, 16 of them).
OpenAIErrorLabel ==
  << 79, 112, 101, 110, 65, 73, 32, 65, 80, 73, 32, 69, 114, 114, 111, 114 >>

\* server.js:161 and 354, "Unknown error"
\* (UTF-16 code units of the literal, 13 of them).
UnknownErrorText ==
  << 85, 110, 107, 110, 111, 119, 110, 32, 101, 114, 114, 111, 114 >>

\* server.js:169 and 367, "Internal Server Error"
\* (UTF-16 code units of the literal, 21 of them).
InternalErrorLabel ==
  << 73, 110, 116, 101, 114, 110, 97, 108, 32, 83, 101, 114, 118, 101, 114, 32, 69, 114, 114, 111, 114 >>

\* server.js:310, "Missing or invalid sessionId or message"
\* (UTF-16 code units of the literal, 39 of them).
BadRequestText ==
  << 77, 105, 115, 115, 105, 110, 103, 32, 111, 114, 32, 105, 110, 118, 97, 108, 105, 100, 32, 115, 101, 115, 115, 105,
     111, 110, 73, 100, 32, 111, 114, 32, 109, 101, 115, 115, 97, 103, 101 >>

\* server.js:93 and 291, the literal 'yes' the classification is compared with
\* (UTF-16 code units of the literal, 3 of them).
Yes ==
  << 121, 101, 115 >>

\* server.js:105, the separator of the template literal: two line feeds
\* (UTF-16 code units of the literal, 2 of them).
ParagraphBreak ==
  << 10, 10 >>

\* a property name every object inherits from Object.prototype (server.js:226: chatSessions is a plain object)
\* (UTF-16 code units of the literal, 11 of them).
KeyConstructor ==
  << 99, 111, 110, 115, 116, 114, 117, 99, 116, 111, 114 >>

\* message of the error a rejected fetch() carries (set by the HTTP client; representative)
\* (UTF-16 code units of the literal, 12 of them).
ErrFetchFailed ==
  << 102, 101, 116, 99, 104, 32, 102, 97, 105, 108, 101, 100 >>

\* a response body that is not JSON, such as the error page of a gateway: <html> (representative)
\* (UTF-16 code units of the literal, 6 of them).
HtmlText ==
  << 60, 104, 116, 109, 108, 62 >>

\* message of the SyntaxError response.json() rejects with on the body <html> (server.js:90, 155, 289, 348; set by the engine)
\* (UTF-16 code units of the literal, 48 of them).
ErrJsonInvalid ==
  << 85, 110, 101, 120, 112, 101, 99, 116, 101, 100, 32, 116, 111, 107, 101, 110, 32, 39, 60, 39, 44, 32, 34, 60,
     104, 116, 109, 108, 62, 34, 32, 105, 115, 32, 110, 111, 116, 32, 118, 97, 108, 105, 100, 32, 74, 83, 79, 78 >>

\* message of the TypeError of data.choices when data is null (server.js:91, 290, 358; set by the engine)
\* (UTF-16 code units of the literal, 50 of them).
ErrReadChoicesOfNull ==
  << 67, 97, 110, 110, 111, 116, 32, 114, 101, 97, 100, 32, 112, 114, 111, 112, 101, 114, 116, 105, 101, 115, 32, 111,
     102, 32, 110, 117, 108, 108, 32, 40, 114, 101, 97, 100, 105, 110, 103, 32, 39, 99, 104, 111, 105, 99, 101, 115,
     39, 41 >>

\* message of the TypeError of data.error when data is null (server.js:161, 354; set by the engine)
\* (UTF-16 code units of the literal, 48 of them).
ErrReadErrorOfNull ==
  << 67, 97, 110, 110, 111, 116, 32, 114, 101, 97, 100, 32, 112, 114, 111, 112, 101, 114, 116, 105, 101, 115, 32, 111,
     102, 32, 110, 117, 108, 108, 32, 40, 114, 101, 97, 100, 105, 110, 103, 32, 39, 101, 114, 114, 111, 114, 39, 41 >>

\* message of the TypeError of server.js:319 when the looked-up value is no array (set by the engine; representative)
\* (UTF-16 code units of the literal, 46 of them).
ErrPushNotFunction ==
  << 99, 104, 97, 116, 83, 101, 115, 115, 105, 111, 110, 115, 91, 115, 101, 115, 115, 105, 111, 110, 73, 100, 93, 46,
     112, 117, 115, 104, 32, 105, 115, 32, 110, 111, 116, 32, 97, 32, 102, 117, 110, 99, 116, 105, 111, 110 >>

\* server.js:180 and 407, 'OK'
\* (UTF-16 code units of the literal, 2 of them).
HealthStatusText ==
  << 79, 75 >>

\* server.js:181 and 408, 'Server is running'
\* (UTF-16 code units of the literal, 17 of them).
HealthMessageText ==
  << 83, 101, 114, 118, 101, 114, 32, 105, 115, 32, 114, 117, 110, 110, 105, 110, 103 >>

\* server.js:182 and 409, 'development'
\* (UTF-16 code units of the literal, 11 of them).
DevelopmentText ==
  << 100, 101, 118, 101, 108, 111, 112, 109, 101, 110, 116 >>

\* a value of the environment variable NODE_ENV (set by the operator; representative)
\* (UTF-16 code units of the literal, 10 of them).
ProductionText ==
  << 112, 114, 111, 100, 117, 99, 116, 105, 111, 110 >>

(***************************************************************************)
(* Strings and JSON values.                                                *)
(***************************************************************************)

\* The code units String.prototype.trim removes (WhiteSpace and
\* LineTerminator of ECMAScript).
WhiteSpace ==
  {9, 10, 11, 12, 13, 32, 160, 5760, 8232, 8233, 8239, 8287, 12288, 65279}
    \cup (8192..8202)

RECURSIVE TrimStart(_)
TrimStart(s) ==
  IF Len(s) > 0 /\ s[1] \in WhiteSpace THEN TrimStart(Tail(s)) ELSE s

RECURSIVE TrimEnd(_)
TrimEnd(s) ==
  IF Len(s) > 0 /\ s[Len(s)] \in WhiteSpace
  THEN TrimEnd(SubSeq(s, 1, Len(s) - 1))
  ELSE s

\* A trim that forgets the trailing white space (String.prototype.trimStart):
\* the classifier contract C1 tells it from trim.
TrimStartOnly(s) == TrimStart(s)

\* String.prototype.trim
Trim(s) == TrimEnd(TrimStart(s))

\* String.prototype.toLowerCase on the code units the model draws from
\* (ASCII): A-Z map to a-z, every other unit to itself.
ToLowerCase(s) ==
  [i \in 1..Len(s) |-> IF s[i] \in 65..90 THEN s[i] + 32 ELSE s[i]]

\* The JSON object {} (a record with no key).
EmptyObject == [k \in {} |-> k]

\* Whether object o has key k with a value that is not undefined.
Has(o, k) == k \in DOMAIN o

\* Truthiness of a string: '' is falsy.
Truthy(s) == Len(s) > 0

\* x?.content || ''   (a missing or empty content reads as '')
ContentOrEmpty(m) == IF Has(m, "content") THEN m.content ELSE <<>>

\* HTTP statuses the upstream answers with; response.ok is 200..299.
Statuses == {200, 429}
Ok(status) == status \in 200..299

(***************************************************************************)
(* The classifier's reduction of the upstream body, the same expression in *)
(* both variants:                                                          *)
(*   data.choices?.[0]?.message?.content?.trim().toLowerCase() === 'yes'   *)
(* An optional chain that stops yields undefined, modelled as the empty    *)
(* sequence of results; a chain that ends yields <<value>>.                *)
(***************************************************************************)

\* data.choices?.[0]?.message
FirstChoiceMessage(data) ==
  IF /\ Has(data, "choices")
     /\ Len(data.choices) >= 1
     /\ Has(data.choices[1], "message")
  THEN <<data.choices[1].message>>
  ELSE <<>>

\* data.choices?.[0]?.message?.content?.trim().toLowerCase()
Classification(data) ==
  LET m == FirstChoiceMessage(data) IN
  IF Len(m) = 1 /\ Has(m[1], "content")
  THEN <<ToLowerCase(Trim(m[1].content))>>
  ELSE <<>>

\* classification === 'yes'
IsYes(data) == Classification(data) = <<Yes>>

\* data.error?.message || 'Unknown error'
ErrorDetails(data) ==
  IF /\ Has(data, "error")
     /\ Has(data.error, "message")
     /\ Truthy(data.error.message)
  THEN data.error.message
  ELSE UnknownErrorText

(***************************************************************************)
(* The prompts of the classifier and the conversation gate.                *)
(***************************************************************************)

\* messages.filter(msg => msg.role === role)
WithRole(messages, role) ==
  SelectSeq(messages, LAMBDA m : Has(m, "role") /\ m.role = role)

\* messages?.find(msg => msg.role === 'user')?.content || ''
FirstUserContent(messages) ==
  LET us == WithRole(messages, "user") IN
  IF Len(us) = 0 THEN <<>> ELSE ContentOrEmpty(us[1])

\* The content of the first message of a role instead of the last one
\* (find in place of filter and slice(-1)).  C6 tells it from lines 97-98.
FirstContentOf(messages, role) ==
  LET ms == WithRole(messages, role) IN
  IF Len(ms) = 0 THEN <<>> ELSE ContentOrEmpty(ms[1])

\* messages?.filter(msg => msg.role === role).slice(-1)[0]?.content || ''
LastContentOf(messages, role) ==
  LET ms == WithRole(messages, role) IN
  IF Len(ms) = 0 THEN <<>> ELSE ContentOrEmpty(ms[Len(ms)])

\* classificationPrompt of the stateless isMedicalQuery
StatelessClassificationPrompt(messages) ==
  << [role |-> "system", content |-> StatelessClassifierInstruction],
     [role |-> "user", content |-> FirstUserContent(messages)] >>

\* classificationPrompt of the stateful isMedicalQuery
StatefulClassificationPrompt(messages) ==
  <<[role |-> "system", content |-> StatefulClassifierInstruction]>> \o messages

\* isMedicalQuery called on the conversation as the caller sent it, instead
\* of on the one message made of lastUserMessage.  C14 tells it from line
\* 101.
FollowUpWholeConversation(messages) == messages

\* The argument of the first isMedicalQuery call of isFollowUpMedicalQuery.
FollowUpFirstArg(messages) ==
  <<[role |-> "user", content |-> LastContentOf(messages, "user")]>>

\* The merged message with its two parts swapped: the user message first.
\* C5 tells it from line 105.
UserThenAssistantMessage(messages) ==
  LastContentOf(messages, "user") \o ParagraphBreak
    \o LastContentOf(messages, "assistant")

\* `${lastAssistantMessage}\n\n${lastUserMessage}`
SimulatedContextMessage(messages) ==
  LastContentOf(messages, "assistant") \o ParagraphBreak
    \o LastContentOf(messages, "user")

\* The argument of the second isMedicalQuery call of isFollowUpMedicalQuery.
FollowUpSecondArg(messages) ==
  <<[role |-> "user", content |-> SimulatedContextMessage(messages)]>>

\* The refusal message and the envelope it is returned in.
Warning == [role |-> "assistant", content |-> RefusalText]
RefusalEnvelope == [choices |-> <<[message |-> Warning]>>]

\* The system message a new session is seeded with.
SeedMessage == [role |-> "system", content |-> SeedSystemContent]

(***************************************************************************)
(* What the environment supplies: the upstream's answers and the callers'  *)
(* request bodies.                                                         *)
(***************************************************************************)

\* { choices: [ { message } ] }
ChatCompletion(msg) == [choices |-> <<[message |-> msg]>>]

\* Answer texts of the classifier model: white space (none, a space, a line
\* feed) around "yes", "Yes", "YES", "no", "", "yes." and "y es".
Paddings == {<<>>, <<32>>, <<10>>}
YesSpellings == {<<121, 101, 115>>, <<89, 101, 115>>, <<89, 69, 83>>}
OtherAnswers == {<<110, 111>>, <<>>, <<121, 101, 115, 46>>, <<121, 32, 101, 115>>}
Padded(answers) == {p \o a \o q : p \in Paddings, a \in answers, q \in Paddings}

\* Upstream JSON objects with no answer text: {}, { choices: [] },
\* { choices: [ {} ] }, a message without content, and an error body.
ObjectsWithoutAnswer ==
  { EmptyObject,
    [choices |-> <<>>],
    [choices |-> <<EmptyObject>>],
    ChatCompletion([role |-> "assistant"]),
    [error |-> [message |-> <<113>>]] }

\* A response body as response.json() finds it: not JSON at all (the text
\* <html>: the promise rejects), the JSON value null, or a JSON object.
JsonObject(data) == [json |-> "object", data |-> data]
JsonNull == [json |-> "null"]
NotJson == [json |-> "invalid", text |-> HtmlText]

\* Bodies whose first choice's content spells yes, up to case and
\* surrounding white space.
YesBodies ==
  { JsonObject(ChatCompletion([role |-> "assistant", content |-> c])) :
      c \in Padded(YesSpellings) }

\* Bodies the upstream answers a classification call with.
ClassifierBodies ==
  YesBodies
    \cup { JsonObject(ChatCompletion([role |-> "assistant", content |-> c])) :
             c \in Padded(OtherAnswers) }
    \cup { JsonObject(d) : d \in ObjectsWithoutAnswer }
    \cup { JsonNull, NotJson }

\* The reply of the chat model: content "r".
Reply == [role |-> "assistant", content |-> <<114>>]

\* Bodies the upstream answers a completion call with: a completion, {},
\* error bodies with a message, with an empty message and without one,
\* null, and a body that is not JSON.
CompletionBodies ==
  { JsonObject(d) :
      d \in { ChatCompletion(Reply),
              EmptyObject,
              [error |-> [message |-> <<113>>]],
              [error |-> [message |-> <<>>]],
              [error |-> EmptyObject] } }
    \cup { JsonNull, NotJson }

\* The text of the message of the r-th stateful request: the r-th letter.
\* The stateful server never reads a message's content, so one text per
\* request, each its own, stands for all.
UserContentOf(r) == <<96 + r>>

\* Session ids "s1" and "s2".  The server treats a session id as an opaque
\* key, so callers name sessions in order: "s2" is used once "s1" exists.
SessionIdList == << <<115, 49>>, <<115, 50>> >>
SessionIds == {SessionIdList[i] : i \in 1..Len(SessionIdList)}
SessionIdsInUse(sessions) ==
  { SessionIdList[i] : i \in { j \in 1..Len(SessionIdList) :
                                 IF j = 1 THEN TRUE ELSE SessionIdList[j - 1] \in DOMAIN sessions } }

\* Property names chatSessions inherits from Object.prototype, of which the
\* model draws "constructor".
InheritedKeys == {KeyConstructor}

\* Bodies of stateful requests.  Valid ones name a session or "constructor"
\* and carry a user message; the invalid ones lack sessionId, have the empty
\* sessionId, lack message, carry an assistant message, carry a message
\* without role, or are {}.
ValidStatefulBodies(r, sessions) ==
  { [sessionId |-> s, message |-> [role |-> "user", content |-> UserContentOf(r)]] :
      s \in SessionIdsInUse(sessions) \cup InheritedKeys }
InvalidStatefulBodies ==
  { [message |-> [role |-> "user", content |-> <<97>>]],
    [sessionId |-> <<>>, message |-> [role |-> "user", content |-> <<97>>]],
    [sessionId |-> <<115, 49>>],
    [sessionId |-> <<115, 49>>, message |-> [role |-> "assistant", content |-> <<97>>]],
    [sessionId |-> <<115, 49>>, message |-> [content |-> <<97>>]],
    EmptyObject }
StatefulRequestBodies(r, sessions) ==
  ValidStatefulBodies(r, sessions) \cup InvalidStatefulBodies

\* Conversations of stateless requests: up to MaxConv messages, each of a
\* user or of the assistant.  The server never compares the content of a
\* message with anything, it selects messages by role: so the content of the
\* i-th message of a conversation is the i-th letter, each its own.
ConversationRoles == {"user", "assistant"}
ContentAt(i) == <<96 + i>>
Conversations ==
  UNION { { [i \in 1..n |-> [role |-> roles[i], content |-> ContentAt(i)]] :
              roles \in [1..n -> ConversationRoles] } : n \in 0..MaxConv }
StatelessRequestBodies == { [messages |-> ms] : ms \in Conversations }

Reqs == 1..NumReqs

(***************************************************************************)
(* State.                                                                  *)
(***************************************************************************)
VARIABLES
  variant,       \* "stateless" or "stateful": which server the process loads
  listening,     \* whether the module loaded and app.listen was reached
  chatSessions,  \* server.js:226: sessionId -> list of messages (own keys)
  req            \* per request: the handler's position, locals and history

vars == <<variant, listening, chatSessions, req>>

\* A request that has not arrived.  pc is the await the handler is
\* suspended at; settled is what the promise awaited at cls_result or
\* gate_result (the one of isMedicalQuery, of isFollowUpMedicalQuery) has
\* settled with; body is req.body; calls are the outbound calls issued so
\* far, in order; inflight counts those not yet settled; upstatus is
\* response.status of the settled fetch; allowed is the gate's decision;
\* res are the responses sent; log is the order of the handler's effects;
\* path is the route that serves the request ("none" for a request not yet
\* received, and for one whose handler has returned without appending).
\* cls records how each classification call ended; updata is the body read
\* from the completion response; pushed are the messages the handler
\* appended to its session.
Pending == [kind |-> "pending"]
Returns(value) == [kind |-> "returned", value |-> value]
Throws(message) == [kind |-> "threw", message |-> message]

IdleReq ==
  [ pc |-> "idle", settled |-> Pending,
    body |-> EmptyObject, calls |-> <<>>, inflight |-> 0,
    upstatus |-> 0, allowed |-> "undecided", res |-> <<>>, log |-> <<>>,
    cls |-> <<>>, updata |-> [json |-> "none"], pushed |-> <<>>,
    path |-> "none" ]

\* `upload` of line 376.  No line of src/server.js declares it: as the file
\* stands the name is unbound.  The multipart upload middleware the
\* repository's description names as a collaborator, which is not part of
\* src/, binds it.
UploadUndeclared == "undeclared"
UploadMiddleware == "middleware"
Uploads == {UploadUndeclared, UploadMiddleware}

\* The statements of the module run in order when the process starts.  The
\* stateless server reaches app.listen (line 187).  The stateful server
\* evaluates upload.single('pdf') at line 376, before it registers GET
\* /api/health (line 405) and before app.listen (line 414): with `upload`
\* unbound that throws a ReferenceError, and the process ends having served
\* nothing.
Loads(v, upload) == v = "stateless" \/ upload # UploadUndeclared

Init ==
  /\ variant \in {"stateless", "stateful"}
  /\ \E upload \in Uploads : listening = Loads(variant, upload)
  /\ chatSessions = <<>>
  /\ req = [r \in Reqs |-> IdleReq]

(***************************************************************************)
(* Statements of the handlers, as functions of the machine state.          *)
(***************************************************************************)
Machine == [req |-> req, chatSessions |-> chatSessions]

Commit(st) ==
  /\ req' = st.req
  /\ chatSessions' = st.chatSessions
  /\ UNCHANGED <<variant, listening>>

\* Requests are named in the order they arrive.
InArrivalOrder(r) == IF r = 1 THEN TRUE ELSE req[r - 1].pc # "idle"

\* A handler sends its response and returns in one run: while one is
\* between the two, no other handler runs.
NoHandlerReturning == \A q \in Reqs : req[q].pc # "done"

\* The handler returns: its locals are gone.  What stays of a request that
\* appended to a session is what its caller and the session saw of it: the
\* request body, the decision, the statuses sent and the messages appended.
\* Of any other request nothing stays.
Returned(q) ==
  LET statuses == [i \in 1..Len(q.res) |-> [status |-> q.res[i].status]] IN
  IF Len(q.pushed) > 0
  THEN [IdleReq EXCEPT !.pc = "closed",
                       !.body = q.body,
                       !.allowed = q.allowed,
                       !.res = statuses,
                       !.pushed = q.pushed,
                       !.path = q.path]
  ELSE [IdleReq EXCEPT !.pc = "closed"]

Return(r) ==
  /\ req[r].pc = "done"
  /\ req' = [req EXCEPT ![r] = Returned(req[r])]
  /\ UNCHANGED <<variant, listening, chatSessions>>

\* The request arrives: express.json() has parsed the body.
Arrive(st, r, body) ==
  [st EXCEPT !.req[r].body = body, !.req[r].path = "POST /api/chat"]

\* fetch(...): the call leaves; the handler awaits it at `next`.
Fetch(st, r, purpose, messages, next) ==
  [st EXCEPT !.req[r].calls = Append(@, [purpose |-> purpose, messages |-> messages]),
             !.req[r].inflight = @ + 1,
             !.req[r].log = Append(@, purpose),
             !.req[r].pc = next]

\* The awaited call is over (rejected, or its body read).
Settle(st, r) == [st EXCEPT !.req[r].inflight = @ - 1]

\* res.status(status).json(body)
Send(st, r, status, body) ==
  [st EXCEPT !.req[r].res = Append(@, [status |-> status, body |-> body]),
             !.req[r].log = Append(@, "respond"),
             !.req[r].pc = "done"]

\* A catch block that logs the error and sends nothing.  C18 tells it from
\* lines 166-172 and 364-370.
CatchWithoutResponse(st, r, message) ==
  [st EXCEPT !.req[r].log = Append(@, "caught"), !.req[r].pc = "failed"]

\* The catch block of the handler.
Catch(st, r, message) ==
  Send(st, r, 500, [error |-> InternalErrorLabel, details |-> message])

\* A decision that looks at the server's state: a request is allowed only
\* while no other request has been received.  C12 tells it from line 321.
DecideByHistory(st, r, allowed) ==
  LET first == \A q \in DOMAIN st.req : q = r \/ st.req[q].pc = "idle"
      outcome == IF allowed /\ first THEN "allow" ELSE "deny"
  IN  [st EXCEPT !.req[r].allowed = outcome,
                 !.req[r].log = Append(@, outcome)]

\* const allowed = await ...
Decide(st, r, allowed) ==
  [st EXCEPT !.req[r].allowed = IF allowed THEN "allow" ELSE "deny",
             !.req[r].log = Append(@, IF allowed THEN "allow" ELSE "deny")]

\* isMedicalQuery ends, and its locals with it (response, whose status
\* upstatus holds).  cls keeps how the call ended: whether fetch resolved,
\* what response.json() found ("none" when fetch rejected), whether the body
\* spells yes, and what isMedicalQuery did ("true", "false" or "threw").
Classified(st, r, resolved, json, spellsYes, result) ==
  [st EXCEPT !.req[r].upstatus = 0,
             !.req[r].cls =
               Append(@, [resolved |-> resolved, json |-> json,
                          yes |-> spellsYes, result |-> result])]

\* An async function ends: its promise settles with `outcome`, and the
\* caller awaiting it resumes in a later run, at `next`.
Resolve(st, r, outcome, next) ==
  [st EXCEPT !.req[r].settled = outcome, !.req[r].pc = next]

\* The caller resumes: it takes the outcome off the promise it awaited.
Resumed(st, r) == [st EXCEPT !.req[r].settled = Pending]

\* const data = await response.json() of the completion response.
Received(st, r, b) == [st EXCEPT !.req[r].updata = b]

\* A push that writes over the last element of the session instead of
\* appending after it.  C11 tells it from Array.prototype.push.
PushOverLast(st, r, sid, msg, event) ==
  [st EXCEPT !.chatSessions[sid] = [@ EXCEPT ![Len(@)] = msg],
             !.req[r].pushed = Append(@, msg),
             !.req[r].log = Append(@, event)]

\* chatSessions[sessionId].push(msg)
Push(st, r, sid, msg, event) ==
  [st EXCEPT !.chatSessions[sid] = Append(@, msg),
             !.req[r].pushed = Append(@, msg),
             !.req[r].log = Append(@, event)]

\* A session created as a copy of a session that exists already, when there
\* is one.  C19 tells it from lines 314-316.
CreateSessionFromExisting(st, sid) ==
  LET start == IF DOMAIN st.chatSessions = {} THEN <<SeedMessage>>
               ELSE st.chatSessions[CHOOSE k \in DOMAIN st.chatSessions : TRUE]
  IN  [st EXCEPT !.chatSessions =
         [k \in DOMAIN st.chatSessions \cup {sid} |->
            IF k = sid THEN start ELSE st.chatSessions[k]]]

\* A session created empty, without the seeded system message.  C16 tells
\* it from lines 314-316.
CreateEmptySession(st, sid) ==
  [st EXCEPT !.chatSessions =
     [k \in DOMAIN st.chatSessions \cup {sid} |->
        IF k = sid THEN <<>> ELSE st.chatSessions[k]]]

\* chatSessions[sessionId] = [ seed ]
CreateSession(st, sid) ==
  [st EXCEPT !.chatSessions =
     [k \in DOMAIN st.chatSessions \cup {sid} |->
        IF k = sid THEN <<SeedMessage>> ELSE st.chatSessions[k]]]

\* A lookup that never finds a session: every request seeds its session
\* anew.  C10 tells it from line 313.
LookupNeverFinds(sessions, sid) ==
  IF sid \in InheritedKeys THEN "inherited" ELSE "undefined"

\* What chatSessions[sessionId] evaluates to: a session's array, a value
\* inherited from Object.prototype, or undefined.
Lookup(sessions, sid) ==
  IF sid \in DOMAIN sessions THEN "array"
  ELSE IF sid \in InheritedKeys THEN "inherited"
  ELSE "undefined"

(***************************************************************************)
(* The stateful server: POST /api/chat (server.js:299-371).                *)
(***************************************************************************)

\* The guard of line 309 without its third disjunct: the role of the
\* message is not looked at.  C7 tells it from line 309.
ValidIgnoringRole(body) ==
  /\ Has(body, "sessionId")
  /\ Truthy(body.sessionId)
  /\ Has(body, "message")

\* The negation of the guard of line 309:
\*   !sessionId || !message || message.role !== 'user'
ValidStatefulBody(body) ==
  /\ Has(body, "sessionId")
  /\ Truthy(body.sessionId)
  /\ Has(body, "message")
  /\ Has(body.message, "role")
  /\ body.message.role = "user"

\* Lines 319 and 321 swapped: the session is classified as it was, then the
\* user message is pushed.  C4 tells it from lines 319-321.
StatefulClassifyThenPush(st, r, sid, message) ==
  Push(Fetch(st, r, "classify", st.chatSessions[sid], "cls_fetch"),
       r, sid, message, "push_user")

\* Lines 319-321: push the user message, then classify the session.
StatefulAccept(st, r, sid, message) ==
  LET pushed == Push(st, r, sid, message, "push_user") IN
  Fetch(pushed, r, "classify", pushed.chatSessions[sid], "cls_fetch")

\* Lines 301-321, up to the fetch of isMedicalQuery (line 275).
StatefulHandle(st, r, body) ==
  IF ~ValidStatefulBody(body)
  THEN Send(st, r, 400, [error |-> BadRequestText])
  ELSE LET sid == body.sessionId
           found == Lookup(st.chatSessions, sid)
       IN  IF found = "inherited"
           THEN Catch(st, r, ErrPushNotFunction)
           ELSE StatefulAccept(IF found = "undefined" THEN CreateSession(st, sid) ELSE st,
                               r, sid, body.message)

StatefulReceive(r) ==
  /\ variant = "stateful"
  /\ listening
  /\ req[r].pc = "idle"
  /\ NoHandlerReturning
  /\ InArrivalOrder(r)
  /\ \E body \in StatefulRequestBodies(r, chatSessions) :
       Commit(StatefulHandle(Arrive(Machine, r, body), r, body))

\* Line 275: the classification fetch settles.  On a rejection
\* isMedicalQuery throws from its await: its promise rejects.
StatefulClassifySettles(r) ==
  /\ variant = "stateful"
  /\ req[r].pc = "cls_fetch"
  /\ NoHandlerReturning
  /\ \/ Commit(Resolve(Classified(Settle(Machine, r), r, FALSE, "none", FALSE, "threw"),
                       r, Throws(ErrFetchFailed), "cls_result"))
     \/ \E s \in Statuses :
          Commit([Machine EXCEPT !.req[r].upstatus = s, !.req[r].pc = "cls_json"])

\* A refusal branch without its return: the refusal is sent and the handler
\* falls through to the completion call.  C3 tells it from lines 323-332.
StatefulDenyFallsThrough(st, r, sid) ==
  Fetch(Send(Push(st, r, sid, Warning, "push_assistant"), r, 200, RefusalEnvelope),
        r, "complete", st.chatSessions[sid], "cmp_fetch")

\* Lines 323-332: the refusal is pushed and returned.
StatefulDeny(st, r, sid) ==
  Send(Push(st, r, sid, Warning, "push_assistant"), r, 200, RefusalEnvelope)

\* A completion call that leaves out the head of the session, the seeded
\* system message.  C15 tells it from line 342.
StatefulForwardWithoutSeed(st, r, sid) ==
  Fetch(st, r, "complete", Tail(st.chatSessions[sid]), "cmp_fetch")

\* Lines 334-346: the completion call, with the session as it is now.
StatefulForward(st, r, sid) ==
  Fetch(st, r, "complete", st.chatSessions[sid], "cmp_fetch")

\* Lines 289-291: isMedicalQuery reads the body, reduces it and returns, or
\* throws on a body that is not JSON (line 289) or is null (line 290).
\* isMedicalQuery never reads the status of its response.
StatefulClassified(st, r, b) ==
  IF b.json = "invalid"
  THEN Resolve(Classified(st, r, TRUE, b.json, FALSE, "threw"),
               r, Throws(ErrJsonInvalid), "cls_result")
  ELSE IF b.json = "null"
  THEN Resolve(Classified(st, r, TRUE, b.json, FALSE, "threw"),
               r, Throws(ErrReadChoicesOfNull), "cls_result")
  ELSE LET result == IsYes(b.data) IN
       Resolve(Classified(st, r, TRUE, b.json, b \in YesBodies,
                          IF result THEN "true" ELSE "false"),
               r, Returns(result), "cls_result")

StatefulClassifyBody(r) ==
  /\ variant = "stateful"
  /\ req[r].pc = "cls_json"
  /\ NoHandlerReturning
  /\ \E b \in ClassifierBodies :
       Commit(StatefulClassified(Settle(Machine, r), r, b))

\* Lines 321-346 and 364-370: the handler resumes from the await of line
\* 321, in the catch block when isMedicalQuery threw, and otherwise refuses
\* or forwards.
StatefulGate(st, r, sid) ==
  LET outcome == st.req[r].settled IN
  IF outcome.kind = "threw"
  THEN Catch(Resumed(st, r), r, outcome.message)
  ELSE LET st1 == Decide(Resumed(st, r), r, outcome.value) IN
       IF ~outcome.value THEN StatefulDeny(st1, r, sid) ELSE StatefulForward(st1, r, sid)

StatefulGateResumes(r) ==
  /\ variant = "stateful"
  /\ req[r].pc = "cls_result"
  /\ NoHandlerReturning
  /\ Commit(StatefulGate(Machine, r, req[r].body.sessionId))

\* Line 334: the completion fetch settles.
StatefulCompletionSettles(r) ==
  /\ variant = "stateful"
  /\ req[r].pc = "cmp_fetch"
  /\ NoHandlerReturning
  /\ \/ Commit(Catch(Settle(Machine, r), r, ErrFetchFailed))
     \/ \E s \in Statuses :
          Commit([Machine EXCEPT !.req[r].upstatus = s, !.req[r].pc = "cmp_json"])

\* Lines 358-363: the reply, when there is one, is pushed; the body is relayed.
StatefulRelay(st, r, sid, data) ==
  LET assistantReply == FirstChoiceMessage(data)
      st1 == IF Len(assistantReply) = 1
             THEN Push(st, r, sid, assistantReply[1], "push_assistant")
             ELSE st
  IN  Send(st1, r, 200, data)

\* An error branch that takes the last message off the session before it
\* answers a non-success status.  C17 tells it from lines 350-356.
StatefulFinishRollingBack(st, r, sid, status, b) ==
  IF b.json = "invalid" THEN Catch(st, r, ErrJsonInvalid)
  ELSE IF b.json = "null"
  THEN Catch(st, r, IF ~Ok(status) THEN ErrReadErrorOfNull ELSE ErrReadChoicesOfNull)
  ELSE IF ~Ok(status)
  THEN Send([st EXCEPT !.chatSessions[sid] = SubSeq(@, 1, Len(@) - 1)], r, status,
            [error |-> OpenAIErrorLabel, details |-> ErrorDetails(b.data)])
  ELSE StatefulRelay(st, r, sid, b.data)

\* Lines 348-363.  A null body throws where it is first read: data.error
\* (line 354) after a non-success status, data.choices (line 358) otherwise.
StatefulFinish(st, r, sid, status, b) ==
  IF b.json = "invalid" THEN Catch(st, r, ErrJsonInvalid)
  ELSE IF b.json = "null"
  THEN Catch(st, r, IF ~Ok(status) THEN ErrReadErrorOfNull ELSE ErrReadChoicesOfNull)
  ELSE IF ~Ok(status)
  THEN Send(st, r, status, [error |-> OpenAIErrorLabel, details |-> ErrorDetails(b.data)])
  ELSE StatefulRelay(st, r, sid, b.data)

StatefulCompletionBody(r) ==
  /\ variant = "stateful"
  /\ req[r].pc = "cmp_json"
  /\ NoHandlerReturning
  /\ \E b \in CompletionBodies :
       Commit(StatefulFinish(Received(Settle(Machine, r), r, b), r,
                             req[r].body.sessionId, req[r].upstatus, b))

(***************************************************************************)
(* The stateless server: POST /api/chat (server.js:120-173) and            *)
(* isFollowUpMedicalQuery (server.js:96-112).                              *)
(***************************************************************************)

\* Both classifications of isFollowUpMedicalQuery issued at once instead
\* of one after the other.  C9 tells it from lines 101-109.
StatelessHandleBothAtOnce(st, r, body) ==
  Fetch(Fetch(st, r, "classify", FollowUpFirstArg(body.messages), "cls_fetch"),
        r, "classify", FollowUpSecondArg(body.messages), "cls_fetch")

\* Lines 122-129 and 97-101, up to the fetch of the first isMedicalQuery.
StatelessHandle(st, r, body) ==
  Fetch(st, r, "classify", FollowUpFirstArg(body.messages), "cls_fetch")

StatelessReceive(r) ==
  /\ variant = "stateless"
  /\ listening
  /\ req[r].pc = "idle"
  /\ NoHandlerReturning
  /\ InArrivalOrder(r)
  /\ \E body \in StatelessRequestBodies :
       Commit(StatelessHandle(Arrive(Machine, r, body), r, body))

\* Line 76: a classification fetch settles.  On a rejection isMedicalQuery
\* throws from its await: its promise rejects.
StatelessClassifySettles(r) ==
  /\ variant = "stateless"
  /\ req[r].pc = "cls_fetch"
  /\ NoHandlerReturning
  /\ \/ Commit(Resolve(Classified(Settle(Machine, r), r, FALSE, "none", FALSE, "threw"),
                       r, Throws(ErrFetchFailed), "cls_result"))
     \/ \E s \in Statuses :
          Commit([Machine EXCEPT !.req[r].upstatus = s, !.req[r].pc = "cls_json"])

\* Lines 130-139: the refusal is returned.
StatelessDeny(st, r) == Send(st, r, 200, RefusalEnvelope)

\* Lines 141-153: the completion call, with the caller's conversation.
StatelessForward(st, r) ==
  Fetch(st, r, "complete", st.req[r].body.messages, "cmp_fetch")

\* Lines 129-153 and 166-172: the handler resumes from the await of line
\* 129, in the catch block when the gate threw, and otherwise refuses or
\* forwards.
StatelessDecided(st, r) ==
  LET outcome == st.req[r].settled IN
  IF outcome.kind = "threw"
  THEN Catch(Resumed(st, r), r, outcome.message)
  ELSE LET st1 == Decide(Resumed(st, r), r, outcome.value) IN
       IF ~outcome.value THEN StatelessDeny(st1, r) ELSE StatelessForward(st1, r)

StatelessGateResumes(r) ==
  /\ variant = "stateless"
  /\ req[r].pc = "gate_result"
  /\ NoHandlerReturning
  /\ Commit(StatelessDecided(Machine, r))

\* Lines 101-111: isFollowUpMedicalQuery resumes from the await of an
\* isMedicalQuery call.  What that call threw it throws; the first result,
\* when true, it returns, and otherwise it classifies the merged message;
\* the second result it returns.
FollowUp(st, r) ==
  LET outcome == st.req[r].settled IN
  IF outcome.kind = "threw"
  THEN Resolve(st, r, outcome, "gate_result")
  ELSE IF Len(st.req[r].calls) = 1 /\ ~outcome.value
  THEN Fetch(Resumed(st, r), r, "classify",
             FollowUpSecondArg(st.req[r].body.messages), "cls_fetch")
  ELSE Resolve(st, r, Returns(outcome.value), "gate_result")

StatelessFollowUpResumes(r) ==
  /\ variant = "stateless"
  /\ req[r].pc = "cls_result"
  /\ NoHandlerReturning
  /\ Commit(FollowUp(Machine, r))

\* Lines 90-93: isMedicalQuery reads the body, reduces it and returns, or
\* throws on a body that is not JSON (line 90) or is null (line 91).
StatelessClassified(st, r, b) ==
  IF b.json = "invalid"
  THEN Resolve(Classified(st, r, TRUE, b.json, FALSE, "threw"),
               r, Throws(ErrJsonInvalid), "cls_result")
  ELSE IF b.json = "null"
  THEN Resolve(Classified(st, r, TRUE, b.json, FALSE, "threw"),
               r, Throws(ErrReadChoicesOfNull), "cls_result")
  ELSE LET result == IsYes(b.data) IN
       Resolve(Classified(st, r, TRUE, b.json, b \in YesBodies,
                          IF result THEN "true" ELSE "false"),
               r, Returns(result), "cls_result")

StatelessClassifyBody(r) ==
  /\ variant = "stateless"
  /\ req[r].pc = "cls_json"
  /\ NoHandlerReturning
  /\ \E b \in ClassifierBodies :
       Commit(StatelessClassified(Settle(Machine, r), r, b))

\* Line 141: the completion fetch settles.
StatelessCompletionSettles(r) ==
  /\ variant = "stateless"
  /\ req[r].pc = "cmp_fetch"
  /\ NoHandlerReturning
  /\ \/ Commit(Catch(Settle(Machine, r), r, ErrFetchFailed))
     \/ \E s \in Statuses :
          Commit([Machine EXCEPT !.req[r].upstatus = s, !.req[r].pc = "cmp_json"])

\* Lines 155-165.  A null body throws at data.error (line 161) after a
\* non-success status; res.json(data) relays null as it relays an object.
StatelessFinish(st, r, status, b) ==
  IF b.json = "invalid" THEN Catch(st, r, ErrJsonInvalid)
  ELSE IF ~Ok(status)
  THEN IF b.json = "null"
       THEN Catch(st, r, ErrReadErrorOfNull)
       ELSE Send(st, r, status, [error |-> OpenAIErrorLabel, details |-> ErrorDetails(b.data)])
  ELSE Send(st, r, 200, IF b.json = "null" THEN JsonNull ELSE b.data)

StatelessCompletionBody(r) ==
  /\ variant = "stateless"
  /\ req[r].pc = "cmp_json"
  /\ NoHandlerReturning
  /\ \E b \in CompletionBodies :
       Commit(StatelessFinish(Received(Settle(Machine, r), r, b), r, req[r].upstatus, b))

(***************************************************************************)
(* GET /api/health, the same in both servers (server.js:178-184, 405-411). *)
(***************************************************************************)

\* Values of process.env.NODE_ENV: unset, or "production".
NodeEnvs == {<<>>, ProductionText}

\* process.env.NODE_ENV || 'development'
Environment(env) == IF Truthy(env) THEN env ELSE DevelopmentText

\* The body of the health response.
HealthBody(env) ==
  [status |-> HealthStatusText, message |-> HealthMessageText,
   environment |-> Environment(env)]

\* A health check that reports 503 while a chat request has an upstream
\* call in flight.  C13 tells it from lines 178-184.
HealthWhenQuiet(st, r, env) ==
  LET busy == \E q \in DOMAIN st.req : st.req[q].inflight > 0 IN
  [st EXCEPT !.req[r].path = "GET /api/health",
             !.req[r].res = Append(@, [status |-> IF busy THEN 503 ELSE 200,
                                       body |-> HealthBody(env)]),
             !.req[r].log = Append(@, "respond"),
             !.req[r].pc = "done"]

\* The handler: one synchronous run, no await.
HealthHandle(st, r, env) ==
  Send([st EXCEPT !.req[r].path = "GET /api/health"], r, 200, HealthBody(env))

Health(r) ==
  /\ listening
  /\ req[r].pc = "idle"
  /\ NoHandlerReturning
  /\ InArrivalOrder(r)
  /\ \E env \in NodeEnvs : Commit(HealthHandle(Machine, r, env))

(***************************************************************************)
(* The specification.                                                      *)
(***************************************************************************)
Step(r) ==
  \/ StatelessReceive(r)
  \/ StatelessClassifySettles(r)
  \/ StatelessClassifyBody(r)
  \/ StatelessFollowUpResumes(r)
  \/ StatelessGateResumes(r)
  \/ StatelessCompletionSettles(r)
  \/ StatelessCompletionBody(r)
  \/ StatefulReceive(r)
  \/ StatefulClassifySettles(r)
  \/ StatefulClassifyBody(r)
  \/ StatefulGateResumes(r)
  \/ StatefulCompletionSettles(r)
  \/ StatefulCompletionBody(r)
  \/ Health(r)

Next ==
  \E r \in Reqs :
    \/ Return(r)
    \/ Step(r)

Spec == Init /\ [][Next]_vars

\* Every awaited promise of a handler settles: the upstream's answer to a
\* fetch, or the failure of the call, arrives, and so does the body read by
\* response.json(); a function whose awaited promise has settled resumes.
Settles(r) ==
  \/ StatelessClassifySettles(r)
  \/ StatelessClassifyBody(r)
  \/ StatelessFollowUpResumes(r)
  \/ StatelessGateResumes(r)
  \/ StatelessCompletionSettles(r)
  \/ StatelessCompletionBody(r)
  \/ StatefulClassifySettles(r)
  \/ StatefulClassifyBody(r)
  \/ StatefulGateResumes(r)
  \/ StatefulCompletionSettles(r)
  \/ StatefulCompletionBody(r)

\* The servers under that assumption; a handler that has sent its response
\* returns, being in the middle of a synchronous run.
FairSpec ==
  /\ Spec
  /\ \A r \in Reqs : WF_vars(Settles(r)) /\ WF_vars(Return(r))

(***************************************************************************)
(* Properties.                                                             *)
(***************************************************************************)

\* The classification calls of a request that have ended.
ClassificationsOf(r) == {req[r].cls[i] : i \in 1..Len(req[r].cls)}

\* The positions of a request's outbound calls made for a purpose.
CallsFor(r, purpose) ==
  {i \in 1..Len(req[r].calls) : req[r].calls[i].purpose = purpose}

\* The response of request r is the one response `status`, `body`.
Answered(r, status, body) ==
  /\ Len(req[r].res) = 1
  /\ req[r].res[1].status = status
  /\ req[r].res[1].body = body

\* C1: in both variants isMedicalQuery returns true exactly when the first
\* choice's message content of the upstream body, trimmed and lower-cased,
\* is "yes"; for every other upstream JSON object (other text, empty text,
\* no choices, no message, no content, an error body) it returns false.
C1_TrueIffYes ==
  \A r \in Reqs : \A c \in ClassificationsOf(r) :
    /\ (c.result = "true") <=> c.yes
    /\ (c.json = "object" /\ ~c.yes) => c.result = "false"

\* A request whose first classification read a body that does not spell yes
\* and returned false, and whose second read one that does and returned true.
C1_Witness ==
  \E r \in Reqs :
    /\ Len(req[r].cls) = 2
    /\ req[r].cls[1].json = "object" /\ ~req[r].cls[1].yes
    /\ req[r].cls[1].result = "false"
    /\ req[r].cls[2].yes /\ req[r].cls[2].result = "true"

\* A classification call that failed with nothing to read: the fetch
\* rejected, or the body was not JSON.
ClassificationFailed(c) == ~c.resolved \/ c.json = "invalid"

\* C2: a request one of whose classification calls failed (rejected fetch,
\* body that is not JSON) is denied and answered with the refusal envelope,
\* never with an error response; and a classification call answered with a
\* non-success status counts as not medical: isMedicalQuery returns false,
\* it neither returns true nor throws.
C2_FailureDenies ==
  /\ [](\A r \in Reqs :
          (req[r].pc = "done" /\ \E c \in ClassificationsOf(r) : ClassificationFailed(c))
            => /\ req[r].allowed = "deny"
               /\ Answered(r, 200, RefusalEnvelope))
  /\ [][ \A r \in Reqs :
          ( /\ req[r].path = "POST /api/chat"
            /\ req[r].pc = "cls_json" /\ ~Ok(req[r].upstatus)
            /\ req'[r].pc = "cls_result" )
          => req'[r].settled = Returns(FALSE) ]_vars

\* C3: a denied request issues no completion call and is answered 200 with
\* exactly the refusal envelope; a completion call is issued only by a
\* request already decided allow.
C3_DenyRefusesAllowForwards ==
  \A r \in Reqs :
    LET l == req[r].log IN
    /\ req[r].allowed = "deny" =>
         /\ CallsFor(r, "complete") = {}
         /\ req[r].pc \in {"done", "closed"}
         /\ req[r].pc = "done" => Answered(r, 200, RefusalEnvelope)
         /\ req[r].pc = "closed" => req[r].res = <<[status |-> 200]>>
    /\ \A i \in 1..Len(l) :
         l[i] = "complete" =>
           /\ req[r].allowed = "allow"
           /\ \E j \in 1..(i - 1) : l[j] = "allow"

\* A denied request that has been answered, and in the same state a request
\* that was allowed and has its completion call in flight.
C3_Witness ==
  /\ \E r \in Reqs : req[r].allowed = "deny" /\ req[r].pc = "done"
  /\ \E r \in Reqs : req[r].allowed = "allow" /\ req[r].pc = "cmp_fetch"

\* The messages of request r's session that are this request's: the user
\* message of its body, and the assistant message it was answered with.
Refused(r) == req[r].pc = "done" /\ req[r].allowed = "deny"
Relayed(r) ==
  /\ req[r].pc = "done" /\ req[r].allowed = "allow"
  /\ Len(req[r].res) = 1 /\ req[r].res[1].status = 200
  /\ req[r].updata.json = "object"
  /\ "choices" \in DOMAIN req[r].res[1].body
  /\ Len(req[r].res[1].body.choices) >= 1
  /\ "message" \in DOMAIN req[r].res[1].body.choices[1]

\* C4: in the stateful variant a valid request's user message is appended to
\* the session before its classification call is issued, and its assistant
\* message (the refusal on deny, the upstream reply on allow) is appended
\* after the decision and before the response is sent.
C4_AppendOrder ==
  variant = "stateful" =>
    \A r \in Reqs :
      LET l == req[r].log IN
      /\ \A i \in 1..Len(l) :
           l[i] = "classify" =>
             /\ \E j \in 1..(i - 1) : l[j] = "push_user"
             /\ Len(req[r].pushed) >= 1
             /\ req[r].pushed[1] = req[r].body.message
      /\ \A i \in 1..Len(l) :
           l[i] = "push_assistant" =>
             /\ \E j \in 1..(i - 1) : l[j] \in {"allow", "deny"}
             /\ \A j \in 1..(i - 1) : l[j] # "respond"
      /\ Refused(r) =>
           /\ req[r].pushed = <<req[r].body.message, Warning>>
           /\ "push_assistant" \in {l[i] : i \in 1..Len(l)}
      /\ Relayed(r) =>
           /\ req[r].pushed = <<req[r].body.message, req[r].res[1].body.choices[1].message>>
           /\ "push_assistant" \in {l[i] : i \in 1..Len(l)}

\* A stateful request that went through every step: user message pushed,
\* classified, allowed, completed, reply pushed, answered.
C4_Witness ==
  /\ variant = "stateful"
  /\ \E r \in Reqs :
       /\ Relayed(r)
       /\ req[r].log = <<"push_user", "classify", "allow", "complete",
                         "push_assistant", "respond">>

\* s ends with t.
EndsWith(s, t) ==
  Len(t) <= Len(s) /\ SubSeq(s, Len(s) - Len(t) + 1, Len(s)) = t

\* The positions of the last message of a role in a conversation.
LastOf(ms, role) ==
  {i \in 1..Len(ms) : /\ ms[i].role = role
                      /\ \A j \in (i + 1)..Len(ms) : ms[j].role # role}

\* The content of the last message of a role, '' when there is none.
TextOfLast(ms, role) ==
  IF LastOf(ms, role) = {} THEN <<>>
  ELSE ms[CHOOSE i \in LastOf(ms, role) : TRUE].content

\* C5: what is sent to the classifier ends with the most recent user turn of
\* the request: in the stateful variant the list ends with the request's own
\* user message, whatever other requests on the session have done; in the
\* stateless variant the list ends with a user message whose text ends with
\* the content of the last user message of the caller's conversation.
C5_EndsWithLatestUserTurn ==
  \A r \in Reqs : \A i \in CallsFor(r, "classify") :
    IF variant = "stateful"
    THEN LET sent == StatefulClassificationPrompt(req[r].calls[i].messages) IN
         sent[Len(sent)] = req[r].body.message
    ELSE LET sent == StatelessClassificationPrompt(req[r].calls[i].messages) IN
         /\ sent[Len(sent)].role = "user"
         /\ EndsWith(sent[Len(sent)].content, TextOfLast(req[r].body.messages, "user"))

\* Two requests on one session, the first still awaiting its classification
\* while the second has pushed its message after it.
C5_Witness ==
  \E r, q \in Reqs :
    /\ r # q /\ variant = "stateful"
    /\ req[r].pc = "cls_json" /\ req[q].pc = "cls_fetch"
    /\ req[r].body.sessionId = req[q].body.sessionId
    /\ Len(req[q].calls[1].messages) > Len(req[r].calls[1].messages)

\* The one user message a classification call of isFollowUpMedicalQuery is
\* made on.
ClassifiedAlone(call, text) ==
  /\ call.purpose = "classify"
  /\ call.messages = <<[role |-> "user", content |-> text]>>
  /\ StatelessClassificationPrompt(call.messages)[2] = [role |-> "user", content |-> text]

\* isFollowUpMedicalQuery has resumed from the isMedicalQuery call that
\* ended last; the handler has resumed from isFollowUpMedicalQuery.
FollowUpResumed(r) ==
  req[r].pc # "cls_result" \/ Len(req[r].cls) < Len(req[r].calls)
GateAnswered(r) == req[r].pc \notin {"cls_result", "gate_result"}

\* C6: isFollowUpMedicalQuery classifies the latest user message alone; when
\* that is true it allows with no second classification; otherwise it
\* classifies once more, one user message made of the last assistant reply,
\* a separator of line feeds and the latest user message, and allows exactly
\* when that second classification is true.
C6_FollowUpPolicy ==
  variant = "stateless" =>
    \A r \in Reqs :
      (req[r].pc \notin {"idle", "closed"} /\ req[r].path = "POST /api/chat") =>
        LET user == TextOfLast(req[r].body.messages, "user")
            asst == TextOfLast(req[r].body.messages, "assistant")
            c == req[r].cls
        IN  /\ Len(req[r].calls) >= 1
            /\ ClassifiedAlone(req[r].calls[1], user)
            /\ Len(c) <= 2
            /\ (Len(c) >= 1 /\ c[1].result = "true") =>
                 /\ CallsFor(r, "classify") = {1}
                 /\ GateAnswered(r) => req[r].allowed = "allow"
            /\ (Len(c) >= 1 /\ c[1].result = "false" /\ FollowUpResumed(r)) =>
                 /\ CallsFor(r, "classify") = {1, 2}
                 /\ ClassifiedAlone(req[r].calls[2], asst \o <<10, 10>> \o user)
            /\ (Len(c) = 2 /\ c[2].result = "true" /\ GateAnswered(r))
                 => req[r].allowed = "allow"
            /\ (Len(c) = 2 /\ c[2].result = "false" /\ GateAnswered(r))
                 => req[r].allowed = "deny"
            /\ req[r].allowed = "allow" => c[Len(c)].result = "true"
            /\ req[r].allowed = "deny" => Len(c) = 2
            /\ req[r].pc = "gate_result" =>
                 /\ req[r].allowed = "undecided"
                 /\ req[r].settled.kind = "returned" =>
                      req[r].settled.value = (c[Len(c)].result = "true")

\* A conversation of an assistant message and a user message, whose first
\* classification was not true and whose second, on the message merged of
\* the two, was true: the request is allowed.
C6_Witness ==
  \E r \in Reqs :
    /\ variant = "stateless"
    /\ Len(req[r].cls) = 2 /\ req[r].cls[2].result = "true"
    /\ req[r].allowed = "allow"
    /\ Len(req[r].body.messages) = 2
    /\ req[r].body.messages[1].role = "assistant"
    /\ req[r].body.messages[2].role = "user"
    /\ req[r].calls[2].messages[1].content
         = req[r].body.messages[1].content \o <<10, 10>> \o req[r].body.messages[2].content

\* A request body the claim C7 is about: sessionId missing, message missing,
\* or a message whose role is not 'user'.
C7_Rejected(body) ==
  \/ "sessionId" \notin DOMAIN body
  \/ "message" \notin DOMAIN body
  \/ "role" \notin DOMAIN body.message
  \/ body.message.role # "user"

\* C7: in the stateful variant the handler of such a request answers 400
\* with { error }, issues no outbound call, and leaves chatSessions as it
\* was: no session created, no message appended.
C7_BadRequest ==
  [][ \A r \in Reqs :
        ( /\ variant = "stateful"
          /\ req[r].pc = "idle" /\ req'[r].path = "POST /api/chat"
          /\ C7_Rejected(req'[r].body) )
        => /\ req'[r].pc = "done"
           /\ Len(req'[r].res) = 1
           /\ req'[r].res[1].status = 400
           /\ req'[r].res[1].body = [error |-> BadRequestText]
           /\ req'[r].calls = <<>>
           /\ req'[r].pushed = <<>>
           /\ chatSessions' = chatSessions ]_vars

\* A request with an assistant-role message answered 400 while a session
\* holding an earlier exchange exists.
C7_Witness ==
  \E r \in Reqs :
    /\ variant = "stateful"
    /\ req[r].pc = "done"
    /\ "message" \in DOMAIN req[r].body
    /\ "role" \in DOMAIN req[r].body.message
    /\ req[r].body.message.role = "assistant"
    /\ req[r].res = <<[status |-> 400, body |-> [error |-> BadRequestText]]>>
    /\ \E sid \in DOMAIN chatSessions : Len(chatSessions[sid]) >= 3

\* The error message the body of the completion response carries, if any.
MessageCarried(b) ==
  IF /\ b.json = "object"
     /\ "error" \in DOMAIN b.data
     /\ "message" \in DOMAIN b.data.error
  THEN <<b.data.error.message>>
  ELSE <<>>

\* C8: an allowed request whose completion call is answered with a
\* non-success status is answered with that status and { error, details },
\* details being the error message of the upstream body, or 'Unknown error'
\* when it carries none (an empty message counts as either); one answered
\* with a success status is answered 200 with the parsed upstream body.
C8_UpstreamOutcomeRelayed ==
  \A r \in Reqs :
    (req[r].pc = "done" /\ req[r].allowed = "allow" /\ req[r].updata.json # "none") =>
      LET b == req[r].updata
          carried == MessageCarried(b)
      IN  /\ Len(req[r].res) = 1
          /\ IF ~Ok(req[r].upstatus)
             THEN /\ req[r].res[1].status = req[r].upstatus
                  /\ DOMAIN req[r].res[1].body = {"error", "details"}
                  /\ IF Len(carried) = 1 /\ Len(carried[1]) > 0
                     THEN req[r].res[1].body.details = carried[1]
                     ELSE req[r].res[1].body.details \in {UnknownErrorText, <<>>}
             ELSE b.json \in {"object", "null"} =>
                    /\ req[r].res[1].status = 200
                    /\ req[r].res[1].body = IF b.json = "null" THEN JsonNull ELSE b.data

\* The purposes of a request's outbound calls, in the order they were issued.
Purposes(r) == [i \in 1..Len(req[r].calls) |-> req[r].calls[i].purpose]

\* C9 as stated: a request issues at most two outbound calls, a
\* classification call and then, only if allowed, the completion call,
\* never two in flight at once and never a third.
C9_AtMostTwoCalls ==
  \A r \in Reqs :
    /\ req[r].inflight <= 1
    /\ Purposes(r) \in {<<>>, <<"classify">>, <<"classify", "complete">>}
    /\ "complete" \in {Purposes(r)[i] : i \in 1..Len(req[r].calls)}
         => req[r].allowed = "allow"

\* C9 as the code has it: a request issues its outbound calls one after the
\* other, never two in flight at once; the stateful variant at most two (a
\* classification, then, only if allowed, the completion), the stateless
\* variant at most three (a classification, a second one only when the
\* first was not true, then, only if allowed, the completion).
C9_SequentialAtMostThree ==
  \A r \in Reqs :
    /\ req[r].inflight <= 1
    /\ Purposes(r) \in
         IF variant = "stateful"
         THEN {<<>>, <<"classify">>, <<"classify", "complete">>}
         ELSE {<<>>, <<"classify">>, <<"classify", "complete">>,
               <<"classify", "classify">>, <<"classify", "classify", "complete">>}
    /\ Len(req[r].calls) >= 2 /\ Purposes(r)[2] = "classify"
         => Len(req[r].cls) >= 1 /\ req[r].cls[1].result = "false"
    /\ "complete" \in {Purposes(r)[i] : i \in 1..Len(req[r].calls)}
         => req[r].allowed = "allow"
    /\ req[r].pc \in {"cls_fetch", "cls_json", "cmp_fetch", "cmp_json"}
         <=> req[r].inflight = 1

\* A stateless request with its third outbound call, the completion, in
\* flight after two classifications.
C9_Witness ==
  \E r \in Reqs :
    /\ Purposes(r) = <<"classify", "classify", "complete">>
    /\ req[r].inflight = 1
    /\ req[r].pc = "cmp_fetch"

\* C10: in the stateful variant, when a valid request arrives for a session
\* on which one request has been handled before, allowed and answered by the
\* upstream with a reply, its classification call carries exactly the seeded
\* system message, the first user message, the first assistant reply and
\* its own user message, after the classifier's instruction.
C10_SecondRequestContext ==
  [][ \A r1, r2 \in Reqs :
        ( /\ variant = "stateful" /\ r1 # r2
          /\ req[r1].pc = "closed" /\ req[r1].allowed = "allow"
          /\ req[r1].res = <<[status |-> 200]>>
          /\ Len(req[r1].pushed) = 2
          /\ req[r2].pc = "idle" /\ req'[r2].pc = "cls_fetch"
          /\ req'[r2].body.sessionId = req[r1].body.sessionId
          /\ \A q \in Reqs \ {r1, r2} :
               Len(req[q].pushed) > 0 => req[q].body.sessionId # req[r1].body.sessionId )
        => LET context == << SeedMessage, req[r1].body.message, req[r1].pushed[2],
                             req'[r2].body.message >>
           IN  /\ req[r1].pushed[1] = req[r1].body.message
               /\ req[r1].pushed[2].role = "assistant"
               /\ req'[r2].calls = <<[purpose |-> "classify", messages |-> context]>>
               /\ StatefulClassificationPrompt(req'[r2].calls[1].messages)
                    = <<[role |-> "system", content |-> StatefulClassifierInstruction]>>
                        \o context ]_vars

\* The second request of a session awaiting its classification, sent with
\* the seed, the first exchange and its own message.
C10_Witness ==
  \E r1, r2 \in Reqs :
    /\ variant = "stateful" /\ r1 # r2
    /\ req[r1].pc = "closed" /\ req[r1].allowed = "allow"
    /\ Len(req[r1].pushed) = 2
    /\ req[r2].pc = "cls_fetch"
    /\ req[r2].calls[1].messages
         = << SeedMessage, req[r1].body.message, req[r1].pushed[2], req[r2].body.message >>
    /\ SeedMessage.content # req[r1].body.message.content
    /\ req[r1].body.message # req[r2].body.message

\* How often m occurs in the sequence s.
Count(s, m) == Cardinality({i \in 1..Len(s) : s[i] = m})

\* The sum f[1] + ... + f[n].
RECURSIVE Total(_, _)
Total(f, n) == IF n = 0 THEN 0 ELSE f[n] + Total(f, n - 1)

\* t is s with elements left out.  The lists compared have at most two
\* elements: what one request appends.
Scattered(t, s) ==
  \/ Len(t) = 0
  \/ Len(t) = 1 /\ \E i \in 1..Len(s) : s[i] = t[1]
  \/ Len(t) = 2 /\ \E i, j \in 1..Len(s) : i < j /\ s[i] = t[1] /\ s[j] = t[2]

\* What request r has appended to session sid.
AppendedTo(r, sid) ==
  IF Len(req[r].pushed) > 0 /\ req[r].body.sessionId = sid
  THEN req[r].pushed
  ELSE <<>>

\* C11: whatever the interleaving of the requests, no append to a session
\* is lost or overwritten: each session holds the seeded system message
\* once, at its head, and after it every message a request appended to it,
\* each as often as it was appended and each request's in their order; so
\* it does once all requests have finished.
C11_NoLostAppend ==
  variant = "stateful" =>
    \A sid \in DOMAIN chatSessions :
      LET s == chatSessions[sid] IN
      /\ Len(s) >= 1 /\ s[1] = SeedMessage /\ Count(s, SeedMessage) = 1
      /\ Len(s) = 1 + Total([r \in Reqs |-> Len(AppendedTo(r, sid))], NumReqs)
      /\ \A r \in Reqs : Scattered(AppendedTo(r, sid), Tail(s))
      /\ \A i \in 2..Len(s) :
           Count(s, s[i]) = Total([r \in Reqs |-> Count(AppendedTo(r, sid), s[i])], NumReqs)

\* All requests have finished, two of them interleaved on one session: both
\* user messages were appended before either reply, and all four are there.
C11_Witness ==
  /\ variant = "stateful"
  /\ \A r \in Reqs : req[r].pc = "closed"
  /\ \E sid \in DOMAIN chatSessions :
       /\ Len(chatSessions[sid]) = 5
       /\ chatSessions[sid][2].role = "user"
       /\ chatSessions[sid][3].role = "user"
       /\ chatSessions[sid][4].role = "assistant"
       /\ chatSessions[sid][5].role = "assistant"

\* What the upstream answered to the classification calls of request r, in
\* order: whether the call resolved, what kind of body it carried and
\* whether that body spells yes.
AnswersOf(r) ==
  [i \in 1..Len(req[r].cls) |->
     [resolved |-> req[r].cls[i].resolved,
      json |-> req[r].cls[i].json, yes |-> req[r].cls[i].yes]]

\* The decision as a function of the policy and the upstream's answers
\* alone: "undecided" while the answers do not settle it, and when the
\* gate threw.  It is the decision of a handler that has resumed from the
\* gate.
GateOutcome(policy, answers) ==
  LET Says(i, yes) == /\ answers[i].resolved /\ answers[i].json = "object"
                      /\ answers[i].yes = yes
  IN  IF Len(answers) = 0 THEN "undecided"
      ELSE IF Says(1, TRUE) THEN "allow"
      ELSE IF ~Says(1, FALSE) THEN "undecided"
      ELSE IF policy = "stateful" THEN "deny"
      ELSE IF Len(answers) = 1 THEN "undecided"
      ELSE IF Says(2, TRUE) THEN "allow"
      ELSE IF Says(2, FALSE) THEN "deny"
      ELSE "undecided"

\* C12: the gate decision is a function of the upstream's answers to the
\* classification of the request's conversation, and of nothing else: not
\* of chatSessions, not of other or earlier requests.  Two runs of the gate
\* that were answered alike decide alike.
C12_DecisionIsFunctionOfAnswers ==
  /\ \A r \in Reqs :
       (req[r].pc \notin {"idle", "closed"} /\ GateAnswered(r)) =>
         req[r].allowed = GateOutcome(variant, AnswersOf(r))
  /\ \A r, q \in Reqs :
       ( /\ req[r].pc \notin {"idle", "closed"} /\ GateAnswered(r)
         /\ req[q].pc \notin {"idle", "closed"} /\ GateAnswered(q)
         /\ AnswersOf(r) = AnswersOf(q) )
       => req[r].allowed = req[q].allowed

\* Two requests decided at once, answered alike and both allowed, one of
\* them after an earlier exchange on its session.
C12_Witness ==
  \E r, q \in Reqs :
    /\ r # q
    /\ req[r].pc = "cmp_fetch" /\ req[q].pc = "cmp_fetch"
    /\ Len(req[r].cls) = 1 /\ AnswersOf(r) = AnswersOf(q)
    /\ req[r].allowed = "allow" /\ req[q].allowed = "allow"
    /\ Len(req[r].calls[1].messages) # Len(req[q].calls[1].messages)

\* C13: GET /api/health answers 200 with status 'OK' whatever the state of
\* the server and of the upstream; the handler issues no outbound call,
\* leaves chatSessions and every other request as they were, and its body is
\* one of the bodies the environment variable alone determines.
C13_HealthAlwaysOk ==
  [][ \A r \in Reqs :
        (req[r].pc = "idle" /\ req'[r].path = "GET /api/health")
        => /\ req'[r].pc = "done"
           /\ Len(req'[r].res) = 1
           /\ req'[r].res[1].status = 200
           /\ req'[r].res[1].body.status = <<79, 75>>
           /\ req'[r].res[1].body \in {HealthBody(env) : env \in NodeEnvs}
           /\ req'[r].calls = <<>> /\ req'[r].inflight = 0
           /\ req'[r].pushed = <<>>
           /\ chatSessions' = chatSessions
           /\ \A q \in Reqs \ {r} : req'[q] = req[q] ]_vars

\* A health check answered while a chat request awaits the upstream and a
\* session exists.
C13_Witness ==
  \E r, q \in Reqs :
    /\ req[r].path = "GET /api/health" /\ req[r].pc = "done"
    /\ req[r].res[1].status = 200
    /\ req[q].pc = "cmp_fetch" /\ req[q].inflight = 1
    /\ DOMAIN chatSessions # {}

\* The user messages of a conversation.
UserMessagesOf(ms) == {i \in 1..Len(ms) : ms[i].role = "user"}

StartsWith(s, t) == Len(t) <= Len(s) /\ SubSeq(s, 1, Len(t)) = t

\* C15: in the stateful variant the list sent in a request's completion call
\* starts with the conversation classified for it, and is equal to it when
\* no append to the session came between the classification call and the
\* completion call; what it holds beyond it was appended by other requests
\* on the same session.
C15_CompletionSendsClassified ==
  [][ \A r \in Reqs :
        (variant = "stateful" /\ req[r].pc = "cls_result" /\ req'[r].pc = "cmp_fetch")
        => LET sid == req[r].body.sessionId
               classified == req[r].calls[1].messages
               sent == req'[r].calls[2].messages
           IN  /\ req'[r].calls[2].purpose = "complete"
               /\ StartsWith(sent, classified)
               /\ Len(chatSessions[sid]) = Len(classified) => sent = classified
               /\ \A i \in (Len(classified) + 1)..Len(sent) :
                    \E q \in Reqs \ {r} : Count(AppendedTo(q, sid), sent[i]) > 0 ]_vars

\* Two requests overlap on one session: the completion call of the first
\* carries, after its own user message, the user message of the second and
\* the refusal the second was answered with.
C15_Witness ==
  \E r, q \in Reqs :
    /\ r # q /\ variant = "stateful"
    /\ req[r].pc = "cmp_fetch"
    /\ Len(req[q].pushed) = 2
    /\ req[q].pushed = << req[q].body.message, Warning >>
    /\ req[r].calls[1].messages = << SeedMessage, req[r].body.message >>
    /\ req[r].calls[2].messages
         = << SeedMessage, req[r].body.message, req[q].body.message, Warning >>

\* Every session is a non-empty list headed by the seeded system message.
Seeded(sessions) ==
  \A sid \in DOMAIN sessions :
    Len(sessions[sid]) >= 1 /\ sessions[sid][1] = SeedMessage

\* C16: in the stateful variant every existing session is a non-empty list
\* whose first element is the seeded system message, and sessions only
\* grow at their end: after any step each session is still there and its
\* earlier list is a prefix of its later one.
C16_SeededAppendOnly ==
  [][ variant = "stateful" =>
        /\ Seeded(chatSessions)
        /\ Seeded(chatSessions')
        /\ \A sid \in DOMAIN chatSessions :
             /\ sid \in DOMAIN chatSessions'
             /\ StartsWith(chatSessions'[sid], chatSessions[sid]) ]_vars

\* Two sessions exist, one holding the seed and an exchange, the other the
\* seed and a user message.
C16_Witness ==
  /\ variant = "stateful"
  /\ Cardinality(DOMAIN chatSessions) = 2
  /\ \E sid \in DOMAIN chatSessions : Len(chatSessions[sid]) = 3
  /\ \E sid \in DOMAIN chatSessions :
       /\ Len(chatSessions[sid]) = 2
       /\ chatSessions[sid][1] = SeedMessage

\* Request r awaits an outbound call, or the function that made it.
Awaiting(r) ==
  req[r].pc \in {"cls_fetch", "cls_json", "cls_result", "gate_result",
                 "cmp_fetch", "cmp_json"}

\* C17: in the stateful variant a valid request whose outbound call ends in
\* an error response (a non-success completion status mirrored, or 500 after
\* a call threw) has appended its user message and nothing else, and the
\* message stays in the session, which that step leaves as it was; the next
\* valid request on the session then puts its user message right after it:
\* two user messages in a row.
C17_ErrorLeavesUserMessage ==
  [][ \A r \in Reqs :
        /\ ( /\ variant = "stateful" /\ Awaiting(r)
             /\ req'[r].pc = "done" /\ req'[r].res[1].status # 200 )
           => LET sid == req[r].body.sessionId IN
              /\ Len(req'[r].res) = 1
              /\ req'[r].res[1].status \in {500, req'[r].upstatus}
              /\ req'[r].pushed = <<req[r].body.message>>
              /\ req[r].body.message.role = "user"
              /\ Count(chatSessions'[sid], req[r].body.message) = 1
              /\ chatSessions' = chatSessions
        /\ \A q \in Reqs \ {r} :
             ( /\ variant = "stateful"
               /\ req[q].pc = "closed" /\ Len(req[q].pushed) = 1
               /\ req[q].res[1].status # 200
               /\ req[r].pc = "idle" /\ req'[r].pc = "cls_fetch"
               /\ req'[r].body.sessionId = req[q].body.sessionId
               /\ chatSessions[req[q].body.sessionId][Len(chatSessions[req[q].body.sessionId])]
                    = req[q].body.message )
             => LET s == chatSessions'[req[q].body.sessionId] IN
                /\ SubSeq(s, Len(s) - 1, Len(s)) = <<req[q].body.message, req'[r].body.message>>
                /\ s[Len(s) - 1].role = "user" /\ s[Len(s)].role = "user" ]_vars

\* A request answered with the mirrored status 429 has returned, and the
\* next request on its session awaits its classification: the session is the
\* seed and the two user messages.
C17_Witness ==
  \E r, q \in Reqs :
    /\ r # q /\ variant = "stateful"
    /\ req[q].pc = "closed" /\ Len(req[q].pushed) = 1
    /\ req[q].res = <<[status |-> 429]>>
    /\ req[r].pc = "cls_fetch"
    /\ req[r].body.sessionId = req[q].body.sessionId
    /\ chatSessions[req[r].body.sessionId]
         = <<SeedMessage, req[q].body.message, req[r].body.message>>

\* C18: provided every outbound call settles, every request that awaits one
\* comes to send a response, and no request, whatever its path, ever has
\* sent more than one: a handler that has answered has answered once.
C18_RespondsExactlyOnce ==
  /\ \A r \in Reqs : Awaiting(r) ~> (req[r].pc = "done" /\ Len(req[r].res) = 1)
  /\ [](\A r \in Reqs :
          /\ Len(req[r].res) <= 1
          /\ req[r].pc = "done" => Len(req[r].res) = 1
          /\ Awaiting(r) => Len(req[r].res) = 0)

\* A stateless request answered once, after three awaited calls.
C18_Witness ==
  \E r \in Reqs :
    /\ req[r].pc = "done"
    /\ Len(req[r].calls) = 3
    /\ Len(req[r].res) = 1
    /\ req[r].log = <<"classify", "classify", "allow", "complete", "respond">>

\* The outbound calls of the requests carry nothing of another session:
\* each list sent is the head of the request's own session as it is now,
\* and holds no user message of a request on another session.
CallsKeepToTheirSession(requests, sessions) ==
  \A r \in DOMAIN requests : \A i \in 1..Len(requests[r].calls) :
    LET sid == requests[r].body.sessionId
        sent == requests[r].calls[i].messages
    IN  /\ sid \in DOMAIN sessions
        /\ StartsWith(sessions[sid], sent)
        /\ \A q \in DOMAIN requests :
             ( /\ Len(requests[q].pushed) > 0
               /\ requests[q].body.sessionId # sid )
             => Count(sent, requests[q].body.message) = 0

\* C19: in the stateful variant a step of a request for session A leaves
\* the list of every other session B as it was, and neither its
\* classification call nor its completion call carries a message of
\* another session.
C19_SessionsIsolated ==
  [][ variant = "stateful" =>
        /\ CallsKeepToTheirSession(req, chatSessions)
        /\ CallsKeepToTheirSession(req', chatSessions')
        /\ \A r \in Reqs :
             req'[r] # req[r] =>
               \A sid \in DOMAIN chatSessions :
                 \/ /\ sid \in DOMAIN chatSessions'
                    /\ chatSessions'[sid] = chatSessions[sid]
                 \/ /\ "sessionId" \in DOMAIN req'[r].body
                    /\ req'[r].body.sessionId = sid ]_vars

\* Two sessions, each with the user message of its own request; the request
\* on the second session has been allowed and its completion call is out
\* while the request on the first still awaits its classification.
C19_Witness ==
  \E r, q \in Reqs :
    /\ variant = "stateful"
    /\ req[r].pc = "cmp_fetch" /\ req[q].pc = "cls_fetch"
    /\ req[r].body.sessionId # req[q].body.sessionId
    /\ req[r].calls[2].messages = <<SeedMessage, req[r].body.message>>
    /\ chatSessions[req[q].body.sessionId] = <<SeedMessage, req[q].body.message>>

====
